---- MODULE Spec2Model ----
(***************************************************************************)
(* The illustration-generation orchestrator of the storybook application:  *)
(* the two in-memory job registries with their background executors (the   *)
(* image function generate-images-background and the story function        *)
(* google-background) and the retry policy retryWithBackoff.                *)
(*                                                                         *)
(* One action is one turn of the Node event loop: a handler or a promise   *)
(* continuation runs to completion, with the microtasks it queues,         *)
(* before any other request, timer or network answer is looked at.         *)
(* The two functions are separate deployments with separate module state;  *)
(* a behaviour follows one instance, named by the variable fn.             *)
(***************************************************************************)
EXTENDS Integers, Sequences, FiniteSets, TLC

\* ---------------------------------------------------------------- bounds
\* Image function: the jobs one instance starts, the image prompts it accepts
\* over all of them, and the clock ticks it is followed for.
MaxImageJobs == 1
MaxPrompts == 3
MaxImageTicks == 2
\* Story function: the jobs one instance starts and the clock ticks.
MaxStoryJobs == 2
MaxTicks == 4
\* Retry policy: the largest maxRetries option tried.
MaxRetriesTried == 3
\* polls of the selector's wait that are answered without delay
MaxQuickPolls == 3
\* calls of the router that are followed
MaxRouterCalls == 2

\* ------------------------------------------------------- values of the code
\* A nullable field is a sequence of length 0 (null) or 1 (the value).
Null == <<>>
Some(v) == <<v>>
\* A slot of a JavaScript array that was never assigned.
Hole == [hole |-> TRUE]

IMAGE_FN == "generate-images-background"
STORY_FN == "google-background"

\* The clock advances in steps of TickMs milliseconds.
TickMs == 30 * 60 * 1000

ImageMaxAge == 30 * 60 * 1000
StoryMaxAge == 60 * 60 * 1000
CleanupInterval == 60 * 60 * 1000

VARIABLES
    fn,          \* the function instance this behaviour follows
    now,         \* Date.now()
    apiKey,      \* whether the environment holds the function's API key
    jobs,        \* image function: the keys of the Map jobs
    job,         \* image function: the job objects, by id (the Map holds references)
    run,         \* image function: the closure of processImagesInBackground, by id; its
                 \* field reordered notes that a sub-task settled before an earlier one,
                 \* its field threw the indices whose generateSingleImage call threw,
                 \* its field requests the requests generateSingleImage made per index
    nextJob,     \* image function: number of jobs started so far
    jobStore,    \* story function: the Map jobStore, id -> record
    fetching,    \* story function: ids whose fetch is in flight
    nextStory,   \* story function: number of jobs started so far
    timerDue,    \* story function: the setInterval callback is due
    request,     \* the request handled in the turn just taken, if it was one
    response,    \* the response that turn returned
    trace,       \* per job, the statuses written and the sub-tasks launched ("launch"),
                 \* in the order the code performs them
    evicted,     \* ids that a sweep has deleted
    born,        \* per job, the time its start request was handled
    retryPc,     \* retryWithBackoff: "idle", "awaiting", "sleeping", "returned", "thrown"
    options,     \* retryWithBackoff: the options of the call
    attempt,     \* retryWithBackoff: the loop variable
    calls,       \* retryWithBackoff: invocations of fn so far
    lastError,   \* retryWithBackoff: the local lastError
    delays,      \* retryWithBackoff: the setTimeout delays waited so far, in order
    settled,     \* retryWithBackoff: the value returned or the error thrown
    clientPc,    \* polling client: "idle", "sleeping", "polling", "returned", "thrown"
    clientJob,   \* polling client: the jobId its start request returned
    startTime,   \* polling client, images: the local startTime
    attempts,    \* polling client, story: the local attempts
    clientResult, \* polling client: the value returned or the error thrown
    clientWhy,   \* polling client: which statement ended it
    atTimeout,   \* polling client: the status its job had when the wait timed out
    totalSteps,  \* handleGenerate: the local totalSteps while incrementProgress is
                 \* still to be called, 0 before and after
    characterDescription, \* handleGenerate: the local characterDescription
    strategy,    \* handleGenerate: the strategy that illustrates the story
    storyPages,  \* handleGenerate: storyContent.pages.length
    selPc,       \* handleGenerate: "idle", "analysing", "writing", "background", "sequential", "parallel",
                 \* "assembling", "delivered", "failed"
    pages,       \* handleGenerate: the page list being built
    outstanding, \* handleGenerate: the positions whose generatePageImage call is in flight
    completedImages, \* handleGenerate: the local completedImages
    outcomes,    \* handleGenerate: how the generatePageImage call of each position settled
    uiProgress,  \* handleGenerate: the state set by setProgress
    reported,    \* handleGenerate: the remote progress last given to onProgress
    delivered,   \* handleGenerate: the pages given to onStoryGenerated
    surfaced,    \* handleGenerate: the error its outer catch block received
    fellBack,    \* handleGenerate: the inner catch block ran the sequential strategy
    aiProvider,  \* router: localStorage item ai_provider
    prod,        \* import.meta.env.PROD
    storedKeys,  \* router: whether a key is stored for each provider
    switched,    \* router: per call of switchProvider, its argument and whether it threw
    routed,      \* router: per call, the operation, the provider stored and the
                 \* backend operations it invoked
    items,       \* storageService: the localStorage items that hold API keys
    envKey,      \* storageService: import.meta.env.VITE_OPENROUTER_API_KEY
    keyCalls,    \* storageService: the calls of the key functions, with what they returned
    answers,     \* generatePageImage: the HTTP statuses its requests were answered with
    pageResult   \* generatePageImage: the image returned or the error thrown

vars == <<fn, now, apiKey, jobs, job, run, nextJob, jobStore, fetching, nextStory,
          timerDue, request, response, trace, evicted, born,
          retryPc, options, attempt, calls, lastError, delays, settled,
          clientPc, clientJob, startTime, attempts, clientResult, clientWhy,
          atTimeout, totalSteps, characterDescription,
          strategy, storyPages, selPc, pages, outstanding, completedImages, outcomes,
          uiProgress, reported, delivered, surfaced, fellBack,
          aiProvider, prod, storedKeys, switched, routed, items, envKey, keyCalls,
          answers, pageResult>>

imageVars == <<jobs, job, run, nextJob>>
storyVars == <<jobStore, fetching, nextStory, timerDue>>
registryVars == <<now, apiKey, imageVars, storyVars, request, response, trace, evicted, born>>
retryVars == <<retryPc, options, attempt, calls, lastError, delays, settled>>
pollVars == <<clientPc, clientJob, startTime, attempts, clientResult, clientWhy,
              atTimeout>>
creatorVars == <<totalSteps, characterDescription>>
selectVars == <<strategy, storyPages, selPc, pages, outstanding, completedImages, outcomes,
                uiProgress, reported, delivered, surfaced, fellBack, creatorVars>>
storageVars == <<items, envKey, keyCalls>>
routerVars == <<aiProvider, prod, storedKeys, switched, routed, storageVars>>
pageVars == <<answers, pageResult>>
frontVars == <<selectVars, routerVars, pageVars>>

\* ------------------------------------------------------------ small helpers
\* The statuses after which a job is not worked on any more.
Terminal(status) == status \in {"completed", "failed"}

Range(s) == {s[i] : i \in 1..Len(s)}

\* Mutant of Round: Math.floor.
RoundDown(a, b) == a \div b

\* Math.round of a / b for a >= 0, b > 0: the nearest integer, halves up.
Round(a, b) == (2 * a + b) \div (2 * b)

\* arr[index] = v on a JavaScript array, index counted from 1 here: a write past
\* the end leaves holes between the old end and the new element.
ArraySet(arr, index, v) ==
    IF index <= Len(arr)
    THEN [arr EXCEPT ![index] = v]
    ELSE arr \o [k \in 1..(index - Len(arr) - 1) |-> Hole] \o <<v>>

\* ---------------------------------------------------- client: image prompts
PageText(k) == ToString(k)

\* generateImagesInBackground: the cover prompt, then one prompt per story page.
CoverPrompt == [pageNumber |-> 0, text |-> "", isCover |-> TRUE]
PagePrompt(k) == [pageNumber |-> k, text |-> PageText(k), isCover |-> FALSE]
BuildImagePrompts(n) == <<CoverPrompt>> \o [k \in 1..n |-> PagePrompt(k)]

\* A null entry of imagePrompts (a malformed request body).
NullPrompt == [isNull |-> TRUE]
IsNullPrompt(p) == "isNull" \in DOMAIN p

\* The request bodies tried: the client's list for a story of n pages, the same
\* list with its last entry null, the empty list, and a body without imagePrompts.
WellFormedPrompts == {BuildImagePrompts(n) : n \in 0..(MaxPrompts - 1)}
MalformedPrompts == {[ps EXCEPT ![Len(ps)] = NullPrompt] : ps \in WellFormedPrompts}
PromptInputs == WellFormedPrompts \cup {<<>>}

\* A request body carries imagePrompts or lacks it.
ImageBodies == {Some(ps) : ps \in PromptInputs \cup MalformedPrompts} \cup {Null}

\* No request was handled in the turn just taken.
NoRequest == [kind |-> "none", jobId |-> Null]
NoResponse == [statusCode |-> 0, body |-> <<>>]

\* ------------------------------------------- image function: the job registry
\* An id no start request ever returns.
UnknownId == 0

\* Mutant of cleanupJobs: the sweep deletes nothing.
cleanupJobsKeepsAll == jobs

\* Mutant of cleanupJobs: the sweep deletes every job.
cleanupJobsSweepsAll == {}

\* cleanupJobs: the keys left after deleting every job older than 30 minutes.
cleanupJobs == {j \in jobs : ~(now - job[j].createdAt > ImageMaxAge)}

\* handler, POST generate_images: the record stored under the new id.
NewImageJob ==
    [status |-> "processing", progress |-> 0,
     message |-> [text |-> "Starting image generation..."],
     result |-> Null, error |-> Null, createdAt |-> now]

\* Mutant of CatchFailed: the callback records the error and leaves the status.
CatchSetsErrorOnly(j, message) == [j EXCEPT !.error = Some(message)]

\* handler: the catch callback of the fire-and-forget call.
CatchFailed(j, message) == [j EXCEPT !.status = "failed", !.error = Some(message)]

\* Mutant of SuccessResult: the entry of a success carries an error field too.
SuccessResultWithError(prompt, imageUrl) ==
    [pageNumber |-> prompt.pageNumber, text |-> prompt.text,
     image |-> Some(imageUrl), error |-> "", isCover |-> prompt.isCover]

\* processImagesInBackground: the entry a sub-task writes when its call succeeds.
SuccessResult(prompt, imageUrl) ==
    [pageNumber |-> prompt.pageNumber, text |-> prompt.text,
     image |-> Some(imageUrl), isCover |-> prompt.isCover]

\* Mutant of FailureResult: the entry of a failure loses the error.
FailureResultDropsError(prompt, message) ==
    [pageNumber |-> prompt.pageNumber, text |-> prompt.text,
     image |-> Null, isCover |-> prompt.isCover]

\* processImagesInBackground: the entry a sub-task writes when its call throws.
FailureResult(prompt, message) ==
    [pageNumber |-> prompt.pageNumber, text |-> prompt.text,
     image |-> Null, error |-> message, isCover |-> prompt.isCover]

\* Mutant of StoreResult: results.push(entry).
StoreResultAppends(results, index, entry) == Append(results, entry)

\* processImagesInBackground: results[index] = entry.
StoreResult(results, index, entry) == ArraySet(results, index, entry)

\* Mutant of UpdateProgress: the update also writes the status.
UpdateProgressWritesStatus(j, completed, totalImages) ==
    [j EXCEPT !.status = "processing",
              !.progress = Round(completed * 100, totalImages),
              !.message = [text |-> "Generated images", completed |-> completed,
                           total |-> totalImages]]

\* processImagesInBackground: the progress update that ends each sub-task.
UpdateProgress(j, completed, totalImages) ==
    [j EXCEPT !.progress = Round(completed * 100, totalImages),
              !.message = [text |-> "Generated images", completed |-> completed,
                           total |-> totalImages]]

\* processImagesInBackground: the writes after Promise.all has resolved.
MarkComplete(j, results) ==
    [j EXCEPT !.status = "completed", !.progress = 100,
              !.message = [text |-> "All images generated!"],
              !.result = Some(results)]

\* Mutant of PromiseAllResolves: the batch resolves although sub-tasks are pending.
PromiseResolvesEarly(pending, rejected) == ~rejected

\* await Promise.all(imagePromises): it resolves when every callback has returned
\* and none has thrown.
PromiseAllResolves(pending, rejected) == pending = {} /\ ~rejected

\* What generateSingleImage returns for a page, and the errors it throws.
ImageUrl(pageNumber) == [url |-> pageNumber]
ImageErrors == {"OpenRouter API error: 500"}

\* Mutant of ProcessImagesSync: the key is looked at after the sub-tasks are
\* launched.
ProcessImagesSyncChecksKeyLast(imagePrompts) ==
    IF imagePrompts = Null
    THEN [error |-> Some("Cannot read properties of undefined (reading 'length')"),
          launched |-> {}]
    ELSE [error |-> IF apiKey THEN Null ELSE Some("OPENROUTER_API_KEY not configured"),
          launched |-> {i \in 1..Len(imagePrompts[1]) : ~IsNullPrompt(imagePrompts[1][i])}]

\* processImagesInBackground up to its first await: the error it rejects with, if
\* any, and the indices whose generateSingleImage call is now in flight. A null
\* entry makes its callback throw from the catch block, which rejects Promise.all.
ProcessImagesSync(imagePrompts) ==
    IF ~apiKey
    THEN [error |-> Some("OPENROUTER_API_KEY not configured"), launched |-> {}]
    ELSE IF imagePrompts = Null
    THEN [error |-> Some("Cannot read properties of undefined (reading 'length')"),
          launched |-> {}]
    ELSE LET ps == imagePrompts[1]
             launched == {i \in 1..Len(ps) : ~IsNullPrompt(ps[i])}
         IN [error |-> IF launched = 1..Len(ps) THEN Null
                       ELSE Some("Cannot read properties of null (reading 'pageNumber')"),
             launched |-> launched]

\* The statuses a turn wrote that changed the status it found, in order.
RECURSIVE StatusWrites(_, _)
StatusWrites(before, written) ==
    IF written = <<>> THEN <<>>
    ELSE IF Head(written) = before THEN StatusWrites(before, Tail(written))
    ELSE <<Head(written)>> \o StatusWrites(Head(written), Tail(written))

\* The events of one start request, in the order the code performs them.
StartTrace(first, launched, last) ==
    <<first>> \o [k \in 1..Cardinality(launched) |-> "launch"] \o last

\* The image prompts accepted so far, over all jobs.
RECURSIVE SumTotals(_)
SumTotals(n) == IF n = 0 THEN 0 ELSE run[n].totalImages + SumTotals(n - 1)
PromptsAccepted == SumTotals(nextJob)

\* handler, GET: the body of a 200 answer.
ImageStatusBody(jobId) ==
    [jobId |-> jobId, status |-> job[jobId].status, progress |-> job[jobId].progress,
     message |-> job[jobId].message, result |-> job[jobId].result,
     error |-> job[jobId].error]

\* handler, GET ?jobId=...: sweep, then look the job up.
ImageStatus(jobId) ==
    /\ fn = IMAGE_FN
    /\ jobs' = cleanupJobs
    /\ evicted' = evicted \cup (jobs \ cleanupJobs)
    /\ request' = [kind |-> "status", jobId |-> jobId]
    /\ response' =
         IF jobId = Null
         THEN [statusCode |-> 400, body |-> [error |-> "Missing jobId parameter"]]
         ELSE IF jobId[1] \notin jobs'
         THEN [statusCode |-> 404, body |-> [error |-> "Job not found or expired"]]
         ELSE [statusCode |-> 200, body |-> ImageStatusBody(jobId[1])]
    /\ UNCHANGED <<fn, now, apiKey, job, run, nextJob, storyVars, trace, born, retryVars>>

\* handler, POST generate_images: sweep, store the job, run
\* processImagesInBackground up to its first await, answer 202; the microtasks
\* queued meanwhile (the catch callback, or the completion of an empty batch)
\* run before the next event.
ImageStart(imagePrompts) ==
    /\ fn = IMAGE_FN
    /\ nextJob < MaxImageJobs
    /\ imagePrompts # Null => PromptsAccepted + Len(imagePrompts[1]) <= MaxPrompts
    /\ LET jobId == nextJob + 1
           started == ProcessImagesSync(imagePrompts)
           ps == IF imagePrompts = Null THEN <<>> ELSE imagePrompts[1]
           finished == PromiseAllResolves(started.launched, started.error # Null)
           after == IF started.error # Null THEN CatchFailed(NewImageJob, started.error[1])
                    ELSE IF finished THEN MarkComplete(NewImageJob, <<>>)
                    ELSE NewImageJob
       IN /\ jobs' = cleanupJobs \cup {jobId}
          /\ evicted' = evicted \cup (jobs \ cleanupJobs)
          /\ job' = [i \in 1..jobId |-> IF i = jobId THEN after ELSE job[i]]
          /\ run' = [i \in 1..jobId |->
                       IF i = jobId
                       THEN [prompts |-> ps, totalImages |-> Len(ps), results |-> <<>>,
                             completed |-> 0, pending |-> started.launched,
                             rejected |-> started.error # Null, reordered |-> FALSE,
                             threw |-> {},
                             requests |-> [index \in started.launched |-> 1]]
                       ELSE run[i]]
          /\ nextJob' = jobId
          /\ born' = [i \in 1..jobId |-> IF i = jobId THEN now ELSE born[i]]
          /\ trace' = [i \in 1..jobId |->
                         IF i = jobId
                         THEN StartTrace(NewImageJob.status, started.launched,
                                         IF after.status # NewImageJob.status
                                         THEN <<after.status>> ELSE <<>>)
                         ELSE trace[i]]
          /\ request' = [kind |-> "start", jobId |-> Some(jobId)]
          /\ response' = [statusCode |-> 202,
                          body |-> [jobId |-> jobId, status |-> "processing",
                                    message |-> "Image generation started. Poll for status."]]
    /\ UNCHANGED <<fn, now, apiKey, storyVars, retryVars>>

\* handler, every other request: the sweep runs, then OPTIONS is answered 200, a
\* POST with another action 400, another method 405.
ImageOther(kind) ==
    /\ fn = IMAGE_FN
    /\ jobs' = cleanupJobs
    /\ evicted' = evicted \cup (jobs \ cleanupJobs)
    /\ request' = [kind |-> kind, jobId |-> Null]
    /\ response' =
         CASE kind = "OPTIONS" -> [statusCode |-> 200, body |-> [empty |-> TRUE]]
           [] kind = "POST other" -> [statusCode |-> 400, body |-> [error |-> "Unknown action"]]
           [] OTHER -> [statusCode |-> 405, body |-> [error |-> "Method not allowed"]]
    /\ UNCHANGED <<fn, now, apiKey, job, run, nextJob, storyVars, trace, born, retryVars, pollVars, frontVars>>

\* processImagesInBackground, one sub-task settling: the generateSingleImage call
\* of prompt index returns (ok) or throws; the entry is stored, the count and the
\* progress are updated; when this was the last one and no callback rejected,
\* Promise.all resolves and the job is marked complete in the same turn.
ImageSettle(jobId, index, ok, message) ==
    /\ fn = IMAGE_FN
    /\ jobId \in 1..nextJob
    /\ index \in run[jobId].pending
    /\ LET r == run[jobId]
           prompt == r.prompts[index]
           entry == IF ok THEN SuccessResult(prompt, ImageUrl(prompt.pageNumber))
                    ELSE FailureResult(prompt, message)
           results == StoreResult(r.results, index, entry)
           completed == r.completed + 1
           pending == r.pending \ {index}
           updated == UpdateProgress(job[jobId], completed, r.totalImages)
           allDone == PromiseAllResolves(pending, r.rejected)
           final == IF allDone THEN MarkComplete(updated, results) ELSE updated
       IN /\ run' = [run EXCEPT ![jobId] =
                       [r EXCEPT !.results = results, !.completed = completed,
                                 !.pending = pending,
                                 !.reordered = @ \/ \E earlier \in pending : earlier < index,
                                 !.threw = IF ok THEN @ ELSE @ \cup {index}]]
          /\ job' = [job EXCEPT ![jobId] = final]
          /\ trace' = [trace EXCEPT ![jobId] =
                         @ \o StatusWrites(job[jobId].status, <<updated.status, final.status>>)]
    /\ request' = NoRequest
    /\ response' = NoResponse
    /\ UNCHANGED <<fn, now, apiKey, jobs, nextJob, storyVars, evicted, born, retryVars, pollVars, frontVars>>

\* ------------------------------------------- story function: the job registry
\* An object literal spread: the fields of b laid over the fields of a.
Merge(a, b) ==
    [k \in DOMAIN a \cup DOMAIN b |-> IF k \in DOMAIN b THEN b[k] ELSE a[k]]

\* The object {} has no fields.
EmptyObject == <<>>

\* Map.set and Map.delete on a Map held as a function over its keys.
MapSet(m, key, value) ==
    [k \in DOMAIN m \cup {key} |-> IF k = key THEN value ELSE m[k]]
MapDelete(m, ids) == [k \in DOMAIN m \ ids |-> m[k]]

\* handler, action start: the record stored under the new id. createdAt is
\* written as an ISO string and read back with getTime(), which returns the
\* same millisecond; the model keeps the millisecond.
NewStoryJob ==
    [status |-> "queued", progress |-> 0, createdAt |-> now,
     result |-> Null, error |-> Null]

\* updateJobProgress: lay the six fields over the stored record, or over {} when
\* the id is not in the Map.
updateJobProgress(store, jobId, status, progress, message, result, error) ==
    LET currentJob == IF jobId \in DOMAIN store THEN store[jobId] ELSE EmptyObject
    IN MapSet(store, jobId,
              Merge(currentJob,
                    [status |-> status, progress |-> progress, message |-> message,
                     result |-> result, error |-> error, updatedAt |-> now]))

\* Mutant of StoryCatchFailed: the callback puts the job back in the queue.
StoryCatchRequeues(store, jobId, message) ==
    LET current == IF jobId \in DOMAIN store THEN store[jobId] ELSE EmptyObject
    IN MapSet(store, jobId, Merge(current, [status |-> "queued", error |-> Some(message)]))

\* handler: the catch callback of the fire-and-forget call; jobStore.get of a
\* missing id spreads as no fields.
StoryCatchFailed(store, jobId, message) ==
    LET current == IF jobId \in DOMAIN store THEN store[jobId] ELSE EmptyObject
    IN MapSet(store, jobId, Merge(current, [status |-> "failed", error |-> Some(message)]))

\* Mutant of StoryBegin: the update before the fetch leaves the job queued.
StoryBeginKeepsQueued(store, jobId) ==
    updateJobProgress(store, jobId, "queued", 5, "Generating story content...", Null, Null)

\* processStoryGeneration: the status update made before the fetch.
StoryBegin(store, jobId) ==
    updateJobProgress(store, jobId, "processing", 5, "Generating story content...",
                      Null, Null)

\* processStoryGeneration: the update with the success result.
StorySucceed(store, jobId, data) ==
    updateJobProgress(store, jobId, "completed", 100, "Story generated!", Some(data), Null)

\* processStoryGeneration: the update made in its catch block.
StoryFail(store, jobId, message) ==
    updateJobProgress(store, jobId, "failed", 0, message, Null, Some(message))

StoryData == "story data"
StoryErrors == {"API error: 500"}

\* Mutant of StoryExpired: a job whose age is the window itself is deleted too.
StoryExpiredAtWindow(store) ==
    {j \in DOMAIN store :
        /\ "createdAt" \in DOMAIN store[j]
        /\ now - store[j].createdAt >= StoryMaxAge}

\* The setInterval callback: the ids it deletes. A record without createdAt
\* gives getTime() = NaN, and NaN > maxAge is false.
StoryExpired(store) ==
    {j \in DOMAIN store :
        /\ "createdAt" \in DOMAIN store[j]
        /\ now - store[j].createdAt > StoryMaxAge}

\* handler, action start: store the job as queued and run processStoryGeneration
\* up to its fetch, or to its throw when the key is missing; answer 202.
StoryStart ==
    /\ fn = STORY_FN
    /\ nextStory < MaxStoryJobs
    /\ LET newJobId == nextStory + 1
           queued == MapSet(jobStore, newJobId, NewStoryJob)
       IN /\ jobStore' = IF apiKey THEN StoryBegin(queued, newJobId)
                         ELSE StoryCatchFailed(queued, newJobId, "GOOGLE_API_KEY not configured")
          /\ fetching' = IF apiKey THEN fetching \cup {newJobId} ELSE fetching
          /\ nextStory' = newJobId
          /\ born' = [i \in 1..newJobId |-> IF i = newJobId THEN now ELSE born[i]]
          /\ trace' = [i \in 1..newJobId |->
                         IF i = newJobId
                         THEN <<queued[newJobId].status, jobStore'[newJobId].status>>
                              \o (IF apiKey THEN <<"launch">> ELSE <<>>)
                         ELSE trace[i]]
          /\ request' = [kind |-> "start", jobId |-> Some(newJobId)]
          /\ response' = [statusCode |-> 202,
                          body |-> [jobId |-> newJobId, status |-> "queued",
                                    message |-> "Story generation started"]]
    /\ UNCHANGED <<fn, now, apiKey, imageVars, timerDue, evicted, retryVars>>

\* handler, action status: 404 for a missing or unknown jobId, else the record.
StoryStatus(jobId) ==
    /\ fn = STORY_FN
    /\ request' = [kind |-> "status", jobId |-> jobId]
    /\ response' =
         IF jobId = Null \/ jobId[1] \notin DOMAIN jobStore
         THEN [statusCode |-> 404, body |-> [error |-> "Job not found"]]
         ELSE [statusCode |-> 200, body |-> jobStore[jobId[1]]]
    /\ UNCHANGED <<fn, now, apiKey, imageVars, storyVars, trace, evicted, born, retryVars>>

\* handler, every other request: a method other than POST is answered 405, an
\* unknown action 400, a body that does not parse 500.
StoryOther(kind) ==
    /\ fn = STORY_FN
    /\ request' = [kind |-> kind, jobId |-> Null]
    /\ response' =
         CASE kind = "GET" -> [statusCode |-> 405, body |-> [error |-> "Method not allowed"]]
           [] kind = "POST other" ->
                [statusCode |-> 400,
                 body |-> [error |-> "Invalid action. Use \"start\" or \"status\""]]
           [] OTHER -> [statusCode |-> 500, body |-> [error |-> "Internal server error"]]
    /\ UNCHANGED <<fn, now, apiKey, imageVars, storyVars, trace, evicted, born, retryVars, pollVars, frontVars>>

\* processStoryGeneration after its fetch: the answer is ok and the job gets the
\* data, or anything in the try block threw: the catch block writes the failure
\* and rethrows, and the handler's catch callback writes it again.
StorySettle(jobId, ok, message) ==
    /\ fn = STORY_FN
    /\ jobId \in fetching
    /\ fetching' = fetching \ {jobId}
    /\ jobStore' = IF ok THEN StorySucceed(jobStore, jobId, StoryData)
                   ELSE StoryCatchFailed(StoryFail(jobStore, jobId, message), jobId, message)
    /\ trace' = [trace EXCEPT ![jobId] =
                   IF ok THEN Append(@, jobStore'[jobId].status)
                   ELSE @ \o <<StoryFail(jobStore, jobId, message)[jobId].status,
                               jobStore'[jobId].status>>]
    /\ request' = NoRequest
    /\ response' = NoResponse
    /\ UNCHANGED <<fn, now, apiKey, imageVars, nextStory, timerDue, evicted, born, retryVars, pollVars, frontVars>>

\* The setInterval callback: delete every job older than one hour.
StoryCleanup ==
    /\ fn = STORY_FN
    /\ timerDue
    /\ timerDue' = FALSE
    /\ jobStore' = MapDelete(jobStore, StoryExpired(jobStore))
    /\ evicted' = evicted \cup StoryExpired(jobStore)
    /\ request' = NoRequest
    /\ response' = NoResponse
    /\ UNCHANGED <<fn, now, apiKey, imageVars, fetching, nextStory, trace, born, retryVars, pollVars, frontVars>>

\* ------------------------------------------------------------------ the clock
\* Whether the story function's hourly timer is due when the clock has moved to
\* later: it was due already, or a multiple of its interval has been passed.
TimerDueAt(later) ==
    fn = STORY_FN /\ (timerDue \/ later \div CleanupInterval > now \div CleanupInterval)

\* Time passes; in the story function the hourly timer becomes due at every
\* multiple of its interval, and its callback runs before time passes again.
Tick ==
    /\ now < (IF fn = IMAGE_FN THEN MaxImageTicks ELSE MaxTicks) * TickMs
    /\ ~timerDue
    /\ now' = now + TickMs
    /\ timerDue' = TimerDueAt(now + TickMs)
    /\ request' = NoRequest
    /\ response' = NoResponse
    /\ UNCHANGED <<fn, apiKey, imageVars, jobStore, fetching, nextStory, trace, evicted, born, retryVars, pollVars, frontVars>>

\* ---------------------------------------------------------- the retry policy
RETRY_FN == "retryWithBackoff"

\* The defaults of the options parameter.
maxRetries == 2
initialDelay == 1000
maxDelay == 5000

\* An error message is held as the set of the marker substrings it contains;
\* message.includes(marker) is membership.
Markers ==
    {"402", "credits", "401", "API key", "403", "forbidden", "400", "invalid",
     "429", "rate limit", "timeout", "503", "502", "network", "500", "501", "504"}
Includes(message, marker) == marker \in message
ErrorMessages ==
    {{m} : m \in Markers} \cup {{}, {"500", "invalid"}, {"429", "credits"}, {"504", "timeout"}}

\* The default shouldRetry.
shouldRetry(error) ==
    IF Includes(error.message, "402") \/ Includes(error.message, "credits") THEN FALSE
    ELSE IF Includes(error.message, "401") \/ Includes(error.message, "API key") THEN FALSE
    ELSE IF Includes(error.message, "403") \/ Includes(error.message, "forbidden") THEN FALSE
    ELSE IF Includes(error.message, "400") \/ Includes(error.message, "invalid") THEN FALSE
    ELSE IF Includes(error.message, "429") \/ Includes(error.message, "rate limit") THEN TRUE
    ELSE IF Includes(error.message, "timeout") THEN TRUE
    ELSE IF Includes(error.message, "503") \/ Includes(error.message, "502") THEN TRUE
    ELSE IF Includes(error.message, "network") THEN TRUE
    ELSE Includes(error.message, "500")

DefaultOptions ==
    [maxRetries |-> maxRetries, initialDelay |-> initialDelay, maxDelay |-> maxDelay]
OptionInputs == {[DefaultOptions EXCEPT !.maxRetries = m] : m \in 0..MaxRetriesTried}

RECURSIVE Pow2(_)
Pow2(n) == IF n = 0 THEN 1 ELSE 2 * Pow2(n - 1)
Min(a, b) == IF a < b THEN a ELSE b

\* Mutant of Delay: the exponent is one too high.
DelayStartsDoubled(opts, n) == Min(opts.initialDelay * Pow2(n + 1), opts.maxDelay)

\* The delay before the retry that follows attempt number n.
Delay(opts, n) == Min(opts.initialDelay * Pow2(n), opts.maxDelay)

\* Mutant of RetriesAgain: the last retry is never made.
RetriesAgainOneLess(opts, n, error) == n + 1 < opts.maxRetries /\ shouldRetry(error)

\* The catch block's test: wait and go round again, or throw.
RetriesAgain(opts, n, error) == n < opts.maxRetries /\ shouldRetry(error)

\* The value invocation number n of fn resolves with, and the Error object it
\* rejects with: two errors of different invocations are different objects.
SuccessValue(n) == [value |-> "ok", call |-> n]
ErrorObject(message, n) == [message |-> message, call |-> n]

\* retryWithBackoff(fn, options) is called: the loop starts and fn is invoked.
RetryBegin(opts) ==
    /\ fn = RETRY_FN
    /\ retryPc = "idle"
    /\ options' = opts
    /\ attempt' = 0
    /\ calls' = 1
    /\ retryPc' = "awaiting"
    /\ UNCHANGED <<fn, registryVars, pollVars, frontVars, lastError, delays, settled>>

\* await fn() resolves: its value is returned.
RetryResolves ==
    /\ fn = RETRY_FN
    /\ retryPc = "awaiting"
    /\ retryPc' = "returned"
    /\ settled' = Some(SuccessValue(calls))
    /\ UNCHANGED <<fn, registryVars, pollVars, frontVars, options, attempt, calls, lastError, delays>>

\* Mutant of RetryRejects: when it gives up the policy throws an error of its own.
RetryRejectsWrapped(message) ==
    /\ fn = RETRY_FN
    /\ retryPc = "awaiting"
    /\ LET error == ErrorObject(message, calls)
       IN /\ lastError' = Some(error)
          /\ IF RetriesAgain(options, attempt, error)
             THEN /\ delays' = Append(delays, Delay(options, attempt))
                  /\ retryPc' = "sleeping"
                  /\ settled' = settled
             ELSE /\ retryPc' = "thrown"
                  /\ settled' = Some(ErrorObject({}, 0))
                  /\ delays' = delays
    /\ UNCHANGED <<fn, registryVars, pollVars, frontVars, options, attempt, calls>>

\* await fn() rejects: the catch block records the error, then sets the timer
\* of the next attempt or throws the error.
RetryRejects(message) ==
    /\ fn = RETRY_FN
    /\ retryPc = "awaiting"
    /\ LET error == ErrorObject(message, calls)
       IN /\ lastError' = Some(error)
          /\ IF RetriesAgain(options, attempt, error)
             THEN /\ delays' = Append(delays, Delay(options, attempt))
                  /\ retryPc' = "sleeping"
                  /\ settled' = settled
             ELSE /\ retryPc' = "thrown"
                  /\ settled' = Some(error)
                  /\ delays' = delays
    /\ UNCHANGED <<fn, registryVars, pollVars, frontVars, options, attempt, calls>>

\* The timer fires: continue, attempt++, the loop test holds, fn is invoked.
RetryWakes ==
    /\ fn = RETRY_FN
    /\ retryPc = "sleeping"
    /\ attempt' = attempt + 1
    /\ calls' = calls + 1
    /\ retryPc' = "awaiting"
    /\ UNCHANGED <<fn, registryVars, pollVars, frontVars, options, lastError, delays, settled>>

\* --------------------------------------------------------- the polling clients
\* generateImagesInBackground polls the image function, pollJobStatus (called by
\* callGoogleAPI) the story function.
POLL_INTERVAL == 2000
MAX_POLL_TIME == 15 * 60 * 1000
StoryPollInterval == 5000
maxAttempts == 180

PollInterval == IF fn = IMAGE_FN THEN POLL_INTERVAL ELSE StoryPollInterval

\* The time a request takes to reach the function, on top of the timer's delay.
\* The wait of the story client is counted in polls, not in time, so only the
\* image client is followed under both latencies.
Latencies == IF fn = IMAGE_FN THEN {0, POLL_INTERVAL \div 2} ELSE {0}

ImageTimeoutError == "Image generation timed out"
StoryTimeoutError == "Job timeout - exceeded maximum wait time"
StatusCheckError == "Failed to check job status"

\* Mutant of FailedJobError: the fallback message is the one of the timeout.
FailedJobErrorSaysTimedOut(error) ==
    IF error = Null \/ error = Some("") THEN ImageTimeoutError ELSE error[1]

\* new Error(job.error || 'Background job failed'): the message.
FailedJobError(error) ==
    IF error = Null \/ error = Some("") THEN "Background job failed" ELSE error[1]

\* How a wait goes on or ends: the next position of the client, the value it
\* returns or the error it throws, and the statement that ended it.
KeepsPolling == [pc |-> "sleeping", result |-> Null, why |-> "none"]
Returns(value) == [pc |-> "returned", result |-> Some([value |-> value]), why |-> "completed"]
Throws(message, why) == [pc |-> "thrown", result |-> Some([message |-> message]), why |-> why]

\* generateImagesInBackground: the test of the while loop.
ImageLoopTest(at) ==
    IF at - startTime < MAX_POLL_TIME THEN KeepsPolling
    ELSE Throws(ImageTimeoutError, "timeout")

\* generateImagesInBackground: the loop body after the poll is answered with r.
ImageClientStep(r, at) ==
    IF r.statusCode # 200 THEN ImageLoopTest(at)
    ELSE IF r.body.status = "completed" THEN Returns(r.body.result)
    ELSE IF r.body.status = "failed" THEN Throws(FailedJobError(r.body.error), "failed")
    ELSE ImageLoopTest(at)

\* pollJobStatus: the test of the while loop.
StoryLoopTest(n) ==
    IF n < maxAttempts THEN KeepsPolling
    ELSE Throws(StoryTimeoutError, "timeout")

\* pollJobStatus: the loop body after the poll is answered with r, attempts = n.
StoryClientStep(r, n) ==
    IF r.statusCode # 200 THEN Throws(StatusCheckError, "status check")
    ELSE IF r.body.status = "completed" THEN Returns(r.body.result)
    ELSE IF r.body.status = "failed" THEN Throws(FailedJobError(r.body.error), "failed")
    ELSE StoryLoopTest(n + 1)

\* The handlers run on an instance whose registry does not hold the job (the
\* registries live in the memory of one instance): the lookup fails.
ImageStatusElsewhere(jobId) ==
    /\ fn = IMAGE_FN
    /\ request' = [kind |-> "status", jobId |-> jobId]
    /\ response' = [statusCode |-> 404, body |-> [error |-> "Job not found or expired"]]
    /\ UNCHANGED <<fn, now, apiKey, imageVars, storyVars, trace, evicted, born, retryVars>>

StoryStatusElsewhere(jobId) ==
    /\ fn = STORY_FN
    /\ request' = [kind |-> "status", jobId |-> jobId]
    /\ response' = [statusCode |-> 404, body |-> [error |-> "Job not found"]]
    /\ UNCHANGED <<fn, now, apiKey, imageVars, storyVars, trace, evicted, born, retryVars>>

\* The status of the client's job as the registry holds it, if it does.
ClientJobStatus ==
    IF fn = IMAGE_FN
    THEN (IF clientJob \in jobs THEN Some(job[clientJob].status) ELSE Null)
    ELSE (IF clientJob \in DOMAIN jobStore THEN Some(jobStore[clientJob].status) ELSE Null)

\* The client moves on after a poll as step says.
ClientMoves(step) ==
    /\ clientPc' = step.pc
    /\ clientResult' = step.result
    /\ clientWhy' = step.why
    /\ atTimeout' = IF step.why = "timeout" THEN ClientJobStatus' ELSE atTimeout

\* generateImagesInBackground up to its first setTimeout: the prompts are built,
\* the start request is answered 202, startTime is taken, the loop test holds.
ClientStartsImages(n) ==
    /\ clientPc = "idle"
    /\ ImageStart(Some(BuildImagePrompts(n)))
    /\ clientJob' = response'.body.jobId
    /\ startTime' = now
    /\ clientPc' = ImageLoopTest(now).pc
    /\ UNCHANGED <<attempts, clientResult, clientWhy, atTimeout>>

\* callGoogleAPI with useBackground, up to the first setTimeout of pollJobStatus.
ClientStartsStory ==
    /\ clientPc = "idle"
    /\ StoryStart
    /\ clientJob' = response'.body.jobId
    /\ attempts' = 0
    /\ clientPc' = StoryLoopTest(0).pc
    /\ UNCHANGED <<startTime, clientResult, clientWhy, atTimeout>>

\* The client's setTimeout fires and its status request reaches the function.
ClientTimerFires(latency) ==
    /\ clientPc = "sleeping"
    /\ clientPc' = "polling"
    /\ now' = now + PollInterval + latency
    /\ timerDue' = TimerDueAt(now + PollInterval + latency)
    /\ request' = NoRequest
    /\ response' = NoResponse
    /\ UNCHANGED <<fn, apiKey, imageVars, jobStore, fetching, nextStory, trace, evicted,
                   born, retryVars, clientJob, startTime, attempts, clientResult,
                   clientWhy, atTimeout, frontVars>>

\* generateImagesInBackground, one poll: the handler answers, on the instance
\* that holds the job or on another one, and the loop body runs on the answer.
ClientPollsImages(elsewhere) ==
    /\ clientPc = "polling"
    /\ IF elsewhere THEN ImageStatusElsewhere(Some(clientJob))
       ELSE ImageStatus(Some(clientJob))
    /\ UNCHANGED <<clientJob, startTime, attempts>>
    /\ ClientMoves(ImageClientStep(response', now))

\* pollJobStatus, one poll.
ClientPollsStory(elsewhere) ==
    /\ clientPc = "polling"
    /\ IF elsewhere THEN StoryStatusElsewhere(Some(clientJob))
       ELSE StoryStatus(Some(clientJob))
    /\ UNCHANGED <<clientJob, startTime>>
    /\ ClientMoves(StoryClientStep(response', attempts))
    /\ attempts' = IF response'.statusCode = 200 /\ ~Terminal(response'.body.status)
                   THEN attempts + 1 ELSE attempts

\* -------------------------------------------------------- strategy selector
\* Step 3 of handleGenerate, the illustration of a story of storyPages pages.
\* The component of part_007 polls the background function in production and
\* calls the router page by page otherwise; the component of StoryCreator.jsx
\* starts every call at once. Position k of a page list is the cover for k = 1
\* and page k - 1 after it.

\* The argument of setProgress after completed of total images.
ImageProgress(completed, total) == 30 + Round(65 * completed, total)

\* Mutant of RescaleProgress: the remote progress is added unscaled.
RescaleProgressUnscaled(p) == 30 + p

\* handleGenerate, the onProgress callback: 30 + Math.round(progress * 0.65).
RescaleProgress(p) == 30 + Round(65 * p, 100)

\* Mutant of SequentialEntry: the entries are numbered from 1.
SequentialEntryFromOne(k, ok) ==
    [pageNumber |-> k, text |-> IF k = 1 THEN "" ELSE PageText(k - 1),
     image |-> IF ok THEN Some(ImageUrl(k - 1)) ELSE Null]

\* generateImagesSequentially: the entry pushed for position k, in the try
\* block (ok) or in the catch block.
SequentialEntry(k, ok) ==
    IF k = 1
    THEN [pageNumber |-> 0, text |-> "",
          image |-> IF ok THEN Some(ImageUrl(0)) ELSE Null, isCover |-> TRUE]
    ELSE [pageNumber |-> k - 1, text |-> PageText(k - 1),
          image |-> IF ok THEN Some(ImageUrl(k - 1)) ELSE Null]

\* StoryCreator.jsx: the entry the then callback of position k makes of the url.
ParallelEntry(k) ==
    IF k = 1
    THEN [pageNumber |-> 0, text |-> "", image |-> Some(ImageUrl(0)), isCover |-> TRUE]
    ELSE [pageNumber |-> k - 1, text |-> PageText(k - 1), image |-> Some(ImageUrl(k - 1))]

\* The errors a call of the router's generatePageImage rejects with.
PageErrors == {"Image generation failed for page"}

\* Mutant of NextOutstanding: every remaining call is started at once.
NextOutstandingAll(k, n) == (k + 1)..(n + 1)

\* generateImagesSequentially: the calls in flight once the call of position k
\* has settled, in a story of n pages.
NextOutstanding(k, n) == IF k = n + 1 THEN {} ELSE {k + 1}

\* Mutant of BackgroundCaught: the error of the background strategy is rethrown.
BackgroundErrorSurfaces(error) ==
    [selPc |-> "failed", surfaced |-> error, fellBack |-> FALSE, outstanding |-> {}]

\* handleGenerate, the inner catch block: the error is logged and
\* generateImagesSequentially is called, which starts the call for the cover.
BackgroundCaught(error) ==
    [selPc |-> "sequential", surfaced |-> Null, fellBack |-> TRUE, outstanding |-> {1}]

\* generateImagesInBackground: the fetch of the start request rejects, or the
\* function is not reachable; the error leaves generateImagesInBackground.
StartError == "Failed to fetch"
ClientStartFails ==
    /\ clientPc = "idle"
    /\ clientPc' = "thrown"
    /\ clientResult' = Throws(StartError, "start").result
    /\ clientWhy' = "start"
    /\ UNCHANGED <<fn, registryVars, retryVars, clientJob, startTime, attempts, atTimeout>>

\* incrementProgress: Math.min(Math.round((currentStep / totalSteps) * 100), 95).
StepProgress(currentStep, total) == Min(Round(100 * currentStep, total), 95)

PageCounts == {5, 10}
Description == "character description"
AnalysisErrors == {"Character analysis timeout", "Photo analysis failed"}
StoryContentErrors == {"Story generation failed"}

\* handleGenerate is called with the fields filled in: the loading step is
\* shown, the progress set to 5, and analyzePersonPhoto raced against a timer
\* of 15 seconds.
GenerateClicked(pageCount) ==
    /\ selPc = "idle"
    /\ selPc' = "analysing"
    /\ uiProgress' = 5
    /\ totalSteps' = pageCount + 2
    /\ UNCHANGED <<fn, registryVars, retryVars, pollVars, strategy, storyPages, pages,
                   outstanding, completedImages, outcomes, reported, delivered, surfaced,
                   fellBack, characterDescription, routerVars, pageVars>>

\* Mutant of AnalysisCaught: the error of the analysis reaches the outer catch.
AnalysisErrorSurfaces(message) ==
    [selPc |-> "failed", surfaced |-> Some(message), uiProgress |-> uiProgress]

\* handleGenerate, the catch block around the analysis: the error is logged,
\* characterDescription stays null, incrementProgress is called and
\* generateStoryContent.
AnalysisCaught(message) ==
    [selPc |-> "writing", surfaced |-> Null, uiProgress |-> StepProgress(1, totalSteps)]

\* The race of the analysis and the timer settles: with the description, or
\* with the error of the analysis or of the timer.
AnalysisSettles(ok, message) ==
    /\ selPc = "analysing"
    /\ LET next == IF ok THEN [selPc |-> "writing", surfaced |-> Null,
                               uiProgress |-> StepProgress(1, totalSteps)]
                   ELSE AnalysisCaught(message)
       IN /\ selPc' = next.selPc
          /\ surfaced' = next.surfaced
          /\ uiProgress' = next.uiProgress
    /\ characterDescription' = IF ok THEN Some(Description) ELSE Null
    /\ UNCHANGED <<fn, registryVars, retryVars, pollVars, strategy, storyPages, pages,
                   outstanding, completedImages, outcomes, reported, delivered,
                   fellBack, totalSteps, routerVars, pageVars>>

\* Mutant of OuterCatch: the error is stored and the loading step stays.
OuterCatchKeepsLoading(message) == [selPc |-> selPc, surfaced |-> Some(message)]

\* handleGenerate, the outer catch block: setError and setStep(4).
OuterCatch(message) == [selPc |-> "failed", surfaced |-> Some(message)]

\* generateStoryContent rejects: the outer catch block shows the error step.
StoryContentFails(message) ==
    /\ selPc = "writing"
    /\ selPc' = OuterCatch(message).selPc
    /\ surfaced' = OuterCatch(message).surfaced
    /\ totalSteps' = 0
    /\ UNCHANGED <<fn, registryVars, retryVars, pollVars, strategy, storyPages, pages,
                   outstanding, completedImages, outcomes, uiProgress, reported, delivered,
                   fellBack, characterDescription, routerVars, pageVars>>

\* generateStoryContent resolves with a story of n pages: incrementProgress is
\* called and step 3 begins. Production builds of part_007 take the background
\* strategy, other builds the sequential one; StoryCreator.jsx takes the
\* parallel one.
SelectBegins(s, n, reachable) ==
    /\ selPc = "writing"
    /\ totalSteps' = 0
    /\ UNCHANGED characterDescription
    /\ s \in {"parallel"} \cup (IF prod THEN {"background"} ELSE {"sequential"})
    /\ strategy' = s
    /\ storyPages' = n
    /\ pages' = IF s = "parallel" THEN [k \in 1..(n + 1) |-> Hole] ELSE <<>>
    /\ completedImages' = 0
    /\ outcomes' = <<>>
    /\ uiProgress' = 30
    /\ UNCHANGED <<reported, delivered, routerVars, pageVars>>
    /\ IF s = "background"
       THEN /\ IF reachable THEN ClientStartsImages(n) ELSE ClientStartFails
            /\ LET caught == BackgroundCaught(clientResult')
               IN IF reachable
                  THEN /\ selPc' = "background"
                       /\ outstanding' = {}
                       /\ UNCHANGED <<surfaced, fellBack>>
                  ELSE /\ selPc' = caught.selPc
                       /\ outstanding' = caught.outstanding
                       /\ surfaced' = caught.surfaced
                       /\ fellBack' = caught.fellBack
       ELSE /\ selPc' = s
            /\ outstanding' = IF s = "parallel" THEN 1..(n + 1) ELSE {1}
            /\ UNCHANGED <<fn, registryVars, retryVars, pollVars, surfaced, fellBack>>

\* generateImagesSequentially: the call in flight settles; its entry is pushed,
\* the progress is set and the next call is started. After the last one the
\* list is returned and handleGenerate sets the progress to 100.
SequentialSettles(ok) ==
    LET k == Len(pages) + 1
        last == k = storyPages + 1
    IN /\ selPc = "sequential"
       /\ k \in outstanding
       /\ pages' = Append(pages, SequentialEntry(k, ok))
       /\ outcomes' = Append(outcomes, ok)
       /\ completedImages' = completedImages + 1
       /\ uiProgress' = IF last THEN 100
                        ELSE ImageProgress(completedImages + 1, storyPages + 1)
       /\ outstanding' = (outstanding \ {k}) \cup NextOutstanding(k, storyPages)
       /\ selPc' = IF last THEN "assembling" ELSE "sequential"
       /\ UNCHANGED <<fn, registryVars, retryVars, pollVars, strategy, storyPages,
                      reported, delivered, surfaced, fellBack, creatorVars, routerVars,
                      pageVars>>

\* Mutant of PromiseAllRejects: the rejection of one call is ignored.
PromiseAllIgnoresRejection(message) == [selPc |-> selPc, surfaced |-> surfaced]

\* StoryCreator.jsx: one of the promises given to Promise.all rejects. The
\* first rejection rejects the await and the outer catch block shows the error
\* step; a later one has no effect.
PromiseAllRejects(message) ==
    [selPc |-> "failed",
     surfaced |-> IF selPc = "parallel" THEN Some(message) ELSE surfaced]

\* StoryCreator.jsx: the call of position index settles. A fulfilled call is
\* counted and its entry kept; Promise.all fulfils with the list once every
\* call has. A rejected call rejects Promise.all: the outer catch block
\* receives its error, while the other calls go on and are still counted.
ParallelSettles(index, ok, message) ==
    /\ strategy = "parallel"
    /\ index \in outstanding
    /\ outstanding' = outstanding \ {index}
    /\ outcomes' = (index :> ok) @@ outcomes
    /\ IF ok
       THEN LET all == selPc = "parallel" /\ outstanding = {index}
            IN /\ pages' = [pages EXCEPT ![index] = ParallelEntry(index)]
               /\ completedImages' = completedImages + 1
               /\ uiProgress' = IF all THEN 100
                                ELSE ImageProgress(completedImages + 1, storyPages + 1)
               /\ selPc' = IF all THEN "assembling" ELSE selPc
               /\ UNCHANGED surfaced
       ELSE /\ selPc' = PromiseAllRejects(message).selPc
            /\ surfaced' = PromiseAllRejects(message).surfaced
            /\ UNCHANGED <<pages, completedImages, uiProgress>>
    /\ UNCHANGED <<fn, registryVars, retryVars, pollVars, strategy, storyPages,
                   reported, delivered, fellBack, creatorVars, routerVars, pageVars>>

\* handleGenerate around one poll of generateImagesInBackground: an answered
\* poll reports the job's progress to onProgress; a completed job ends the wait
\* with its result, an error thrown by the wait is caught.
SelectPolls(elsewhere) ==
    /\ selPc = "background"
    /\ ClientPollsImages(elsewhere)
    /\ reported' = IF response'.statusCode = 200 THEN Some(response'.body.progress)
                   ELSE reported
    /\ LET caught == BackgroundCaught(clientResult')
       IN CASE clientPc' = "returned" ->
                  /\ pages' = LET value == clientResult'[1].value
                               IN IF value = Null THEN Null ELSE value[1]
                  /\ selPc' = "assembling"
                  /\ uiProgress' = 100
                  /\ UNCHANGED <<outstanding, surfaced, fellBack>>
            [] clientPc' = "thrown" ->
                  /\ selPc' = caught.selPc
                  /\ outstanding' = caught.outstanding
                  /\ surfaced' = caught.surfaced
                  /\ fellBack' = caught.fellBack
                  /\ uiProgress' = IF response'.statusCode = 200
                                   THEN RescaleProgress(response'.body.progress)
                                   ELSE uiProgress
                  /\ UNCHANGED pages
            [] OTHER ->
                  /\ uiProgress' = IF response'.statusCode = 200
                                   THEN RescaleProgress(response'.body.progress)
                                   ELSE uiProgress
                  /\ UNCHANGED <<pages, selPc, outstanding, surfaced, fellBack>>
    /\ UNCHANGED <<strategy, storyPages, completedImages, outcomes, delivered,
                   creatorVars, routerVars, pageVars>>

\* handleGenerate: the 800 ms timer fires and onStoryGenerated gets the story.
Deliver ==
    /\ selPc = "assembling"
    /\ selPc' = "delivered"
    /\ delivered' = Some(pages)
    /\ UNCHANGED <<fn, registryVars, retryVars, pollVars, strategy, storyPages, pages,
                   outstanding, completedImages, outcomes, uiProgress, reported,
                   surfaced, fellBack, creatorVars, routerVars, pageVars>>

\* ------------------------------------------------------------ stored API keys
\* storageService.js: the key functions over localStorage. An item that is
\* absent and an empty string are both falsy; NoKey stands for either.
ItemNames == {"google_api_key", "openrouter_api_key"}
NoKey == ""
KeyValues == {NoKey, "key A", "key B"}

\* setApiKey: the item it writes.
ApiKeyItem == "google_api_key"

\* getApiKey and getOpenRouterKey (the same body): null in production, else the
\* item openrouter_api_key, else the variable of the .env file, else null.
getApiKey ==
    IF prod THEN Null
    ELSE IF items["openrouter_api_key"] # NoKey THEN Some(items["openrouter_api_key"])
    ELSE IF envKey # NoKey THEN Some(envKey)
    ELSE Null

\* setApiKey(key) and setOpenRouterKey(key): a non-empty key is stored and true
\* returned, an empty one is refused.
SetKey(op, item, key) ==
    /\ Len(keyCalls) < MaxRouterCalls
    /\ items' = IF key # NoKey THEN [items EXCEPT ![item] = key] ELSE items
    /\ keyCalls' = Append(keyCalls, [op |-> op, key |-> key, returned |-> Some(key # NoKey)])
    /\ UNCHANGED <<fn, registryVars, retryVars, pollVars, selectVars, aiProvider, prod,
                   storedKeys, switched, routed, envKey, pageVars>>

\* getApiKey() or getOpenRouterKey() is called.
GetKey(op) ==
    /\ Len(keyCalls) < MaxRouterCalls
    /\ keyCalls' = Append(keyCalls, [op |-> op, key |-> NoKey, returned |-> getApiKey])
    /\ UNCHANGED <<fn, registryVars, retryVars, pollVars, selectVars, aiProvider, prod,
                   storedKeys, switched, routed, items, envKey, pageVars>>

\* ---------------------------------------------------------- provider router
\* aiProvider.js in front of the two backend modules. aiProvider is the item
\* ai_provider of localStorage, storedKeys tells whether a key is to be had for
\* each provider.
AI_PROVIDERS == {"google", "openrouter"}
RouterOperations == {"generateStoryContent", "analyzePersonPhoto", "generatePageImage"}

\* getCurrentProvider: getAIProvider() || 'openrouter'.
getCurrentProvider == IF aiProvider = Null THEN "openrouter" ELSE aiProvider[1]

\* getProviderApiKey: whether it returns a key.
getProviderApiKey == IF prod THEN FALSE ELSE storedKeys[getCurrentProvider]

isApiKeyRequired == ~prod

\* Mutant of getProviderAPI: the modules are swapped.
getProviderAPISwapped == IF getCurrentProvider = "google" THEN "openRouterAPI" ELSE "googleAPI"

getProviderAPI == IF getCurrentProvider = "google" THEN "googleAPI" ELSE "openRouterAPI"

KeyMissingError ==
    IF getCurrentProvider = "google" THEN "Please set your Google AI Studio API key in settings"
    ELSE "Please set your OpenRouter API key in settings"

\* Mutant of StoredAfterSwitch: the value is stored before it is validated.
StoredAfterSwitchAny(provider) == Some(provider)

\* switchProvider, then setAIProvider: the item ai_provider after the call.
StoredAfterSwitch(provider) ==
    IF provider \in AI_PROVIDERS THEN Some(provider) ELSE aiProvider

\* switchProvider: a value that is no provider throws and stores nothing.
SwitchProvider(provider) ==
    /\ Len(switched) < MaxRouterCalls
    /\ aiProvider' = StoredAfterSwitch(provider)
    /\ switched' = Append(switched, [provider |-> provider,
                                     threw |-> provider \notin AI_PROVIDERS])
    /\ UNCHANGED <<fn, registryVars, retryVars, pollVars, selectVars, prod, storedKeys,
                   routed, storageVars, pageVars>>

\* generateStoryContent, analyzePersonPhoto, generatePageImage of the router:
\* the provider, the key and the module are read, a missing key that is
\* required throws, otherwise the module's operation of the same name is called.
RouterCall(op) ==
    /\ Len(routed) < MaxRouterCalls
    /\ routed' = Append(routed,
                        IF isApiKeyRequired /\ ~getProviderApiKey
                        THEN [op |-> op, stored |-> aiProvider, invoked |-> {},
                              threw |-> Some(KeyMissingError)]
                        ELSE [op |-> op, stored |-> aiProvider,
                              invoked |-> {[api |-> getProviderAPI, op |-> op]},
                              threw |-> Null])
    /\ UNCHANGED <<fn, registryVars, retryVars, pollVars, selectVars, aiProvider, prod,
                   storedKeys, switched, storageVars, pageVars>>

\* ------------------------------------------------- generatePageImage, backends
\* generatePageImage of the OpenRouter module and of the Google module, each
\* with the copy of retryWithBackoff of its file and the default options. A
\* request is answered with an HTTP status, or fetch rejects (status 0).
OPENROUTER_API == "openRouterAPI"
GOOGLE_API == "googleAPI"

TransientStatuses == {429, 502, 503}
PermanentStatuses == {400, 401, 402, 403}
HttpAnswers == {200} \cup TransientStatuses \cup PermanentStatuses
NoAnswer == 0

\* The message of the TypeError of a rejected fetch ('Failed to fetch') holds
\* none of the markers.
FetchRejectedMessage == {}

\* callGoogleAPI: 'API error: ' + response.statusText + ' - ' + errorText. The
\* reason phrases hold no marker; the body may repeat the status code (echo).
GoogleErrorMessage(status, echo) == IF echo THEN {ToString(status)} ELSE {}

\* openRouterAPI.generatePageImage: 'Image API error (' + response.status + ')...'
ImageApiError(status) == {ToString(status)}

\* What the function handed to retryWithBackoff does on an answer: the
\* OpenRouter module hands over the bare fetch, which resolves on every HTTP
\* answer; the Google module hands over callGoogleAPI, which throws unless the
\* answer is ok.
WrappedCall(status, echo) ==
    IF status = NoAnswer THEN [rejects |-> TRUE, message |-> FetchRejectedMessage]
    ELSE IF fn = GOOGLE_API /\ status # 200
    THEN [rejects |-> TRUE, message |-> GoogleErrorMessage(status, echo)]
    ELSE [rejects |-> FALSE, message |-> {}]

\* generatePageImage is called: retryWithBackoff invokes its function.
PageImageBegin ==
    /\ fn \in {OPENROUTER_API, GOOGLE_API}
    /\ retryPc = "idle"
    /\ options' = DefaultOptions
    /\ attempt' = 0
    /\ calls' = 1
    /\ retryPc' = "awaiting"
    /\ UNCHANGED <<fn, registryVars, pollVars, frontVars, lastError, delays, settled>>

\* The request in flight is answered. If the wrapped function resolves,
\* retryWithBackoff returns and generatePageImage goes on with the response:
\* the image of an ok answer is returned, another answer is thrown as an error.
\* If it rejects, the catch block of retryWithBackoff sets the timer of the
\* next attempt or throws, and generatePageImage rethrows.
PageImageAnswered(status, echo) ==
    /\ fn \in {OPENROUTER_API, GOOGLE_API}
    /\ retryPc = "awaiting"
    /\ answers' = Append(answers, status)
    /\ LET call == WrappedCall(status, echo)
           error == ErrorObject(call.message, calls)
       IN IF ~call.rejects
          THEN /\ retryPc' = "returned"
               /\ settled' = Some(SuccessValue(calls))
               /\ pageResult' = IF status = 200 THEN Some([image |-> ImageUrl(0)])
                                ELSE Some([error |-> ImageApiError(status)])
               /\ UNCHANGED <<lastError, delays>>
          ELSE /\ lastError' = Some(error)
               /\ IF RetriesAgain(options, attempt, error)
                  THEN /\ delays' = Append(delays, Delay(options, attempt))
                       /\ retryPc' = "sleeping"
                       /\ UNCHANGED <<settled, pageResult>>
                  ELSE /\ retryPc' = "thrown"
                       /\ settled' = Some(error)
                       /\ pageResult' = Some([error |-> call.message])
                       /\ UNCHANGED delays
    /\ UNCHANGED <<fn, registryVars, pollVars, selectVars, routerVars, options, attempt,
                   calls>>

\* The timer of retryWithBackoff fires and the request is issued again.
PageImageWakes ==
    /\ fn \in {OPENROUTER_API, GOOGLE_API}
    /\ retryPc = "sleeping"
    /\ attempt' = attempt + 1
    /\ calls' = calls + 1
    /\ retryPc' = "awaiting"
    /\ UNCHANGED <<fn, registryVars, pollVars, frontVars, options, lastError, delays, settled>>

\* ------------------------------------------------------------ specification
\* What a fresh instance holds, whichever component is followed.
InitRegistries ==
    /\ now = 0
    /\ jobs = {}
    /\ job = <<>>
    /\ run = <<>>
    /\ nextJob = 0
    /\ jobStore = <<>>
    /\ fetching = {}
    /\ nextStory = 0
    /\ timerDue = FALSE
    /\ request = NoRequest
    /\ response = NoResponse
    /\ trace = <<>>
    /\ evicted = {}
    /\ born = <<>>

InitPoll ==
    /\ clientPc = "idle"
    /\ clientJob = 0
    /\ startTime = 0
    /\ attempts = 0
    /\ clientResult = Null
    /\ clientWhy = "none"
    /\ atTimeout = Null

InitSelectState ==
    /\ strategy = "none"
    /\ storyPages = 0
    /\ selPc = "idle"
    /\ pages = <<>>
    /\ outstanding = {}
    /\ completedImages = 0
    /\ outcomes = <<>>
    /\ uiProgress = 0
    /\ totalSteps = 0
    /\ characterDescription = Null
    /\ reported = Null
    /\ delivered = Null
    /\ surfaced = Null
    /\ fellBack = FALSE

InitRouterState ==
    /\ aiProvider = Null
    /\ storedKeys = [google |-> FALSE, openrouter |-> FALSE]
    /\ switched = <<>>
    /\ routed = <<>>
    /\ items = [name \in ItemNames |-> NoKey]
    /\ envKey = NoKey
    /\ keyCalls = <<>>

InitPageState ==
    /\ answers = <<>>
    /\ pageResult = Null

\* The browser side at rest, in a production build.
InitFront ==
    /\ InitSelectState
    /\ InitRouterState
    /\ prod = TRUE
    /\ InitPageState

InitRetry ==
    /\ retryPc = "idle"
    /\ options = DefaultOptions
    /\ attempt = 0
    /\ calls = 0
    /\ lastError = Null
    /\ delays = <<>>
    /\ settled = Null

Init ==
    /\ fn \in {IMAGE_FN, STORY_FN}
    /\ apiKey \in BOOLEAN
    /\ InitRegistries
    /\ InitRetry
    /\ InitPoll
    /\ InitFront

ImageStatusRequest ==
    /\ \E jobId \in {Null} \cup {Some(i) : i \in 0..nextJob} : ImageStatus(jobId)
    /\ UNCHANGED <<pollVars, frontVars>>
ImageStartRequest ==
    /\ \E body \in ImageBodies : ImageStart(body)
    /\ UNCHANGED <<pollVars, frontVars>>
ImageOtherRequest == \E kind \in {"OPTIONS", "POST other", "PUT"} : ImageOther(kind)
ImageSubtaskSettles ==
    \E jobId \in 1..nextJob : \E index \in run[jobId].pending :
        \/ ImageSettle(jobId, index, TRUE, "")
        \/ \E message \in ImageErrors : ImageSettle(jobId, index, FALSE, message)
StoryStartRequest == StoryStart /\ UNCHANGED <<pollVars, frontVars>>
StoryStatusRequest ==
    /\ \E jobId \in {Null} \cup {Some(i) : i \in 0..nextStory} : StoryStatus(jobId)
    /\ UNCHANGED <<pollVars, frontVars>>
StoryOtherRequest == \E kind \in {"GET", "POST other", "POST unparsable"} : StoryOther(kind)
StoryFetchSettles ==
    \E jobId \in fetching :
        \/ StorySettle(jobId, TRUE, "")
        \/ \E message \in StoryErrors : StorySettle(jobId, FALSE, message)

Next ==
    \/ ImageStatusRequest
    \/ ImageStartRequest
    \/ ImageOtherRequest
    \/ ImageSubtaskSettles
    \/ StoryStartRequest
    \/ StoryStatusRequest
    \/ StoryOtherRequest
    \/ StoryFetchSettles
    \/ StoryCleanup
    \/ Tick

Spec == Init /\ [][Next]_vars

\* The retry policy on its own: one call of retryWithBackoff around an operation
\* that resolves or rejects as it likes.
RetryCalled == \E opts \in OptionInputs : RetryBegin(opts)
RetryOperationRejects == \E message \in ErrorMessages : RetryRejects(message)

InitRetrySpec ==
    /\ fn = RETRY_FN
    /\ apiKey = TRUE
    /\ InitRegistries
    /\ InitRetry
    /\ InitPoll
    /\ InitFront

NextRetry ==
    \/ RetryCalled
    \/ RetryResolves
    \/ RetryOperationRejects
    \/ RetryWakes

SpecRetry == InitRetrySpec /\ [][NextRetry]_vars

\* A polling client in front of the function it polls: the client starts one
\* job and waits for it; once its wait has timed out, time goes on and the job
\* is read by others.
ClientStarts ==
    /\ \/ \E n \in 0..(MaxPrompts - 1) : ClientStartsImages(n)
       \/ ClientStartsStory
    /\ UNCHANGED frontVars
ClientSleeps == \E latency \in Latencies : ClientTimerFires(latency)
ClientPolls ==
    /\ \E elsewhere \in BOOLEAN :
          \/ ClientPollsImages(elsewhere)
          \/ ClientPollsStory(elsewhere)
    /\ UNCHANGED frontVars
\* The fetch of the client's story job settles; its error may have an empty
\* message.
ClientFetchSettles ==
    \E jobId \in fetching :
        \/ StorySettle(jobId, TRUE, "")
        \/ \E message \in StoryErrors \cup {""} : StorySettle(jobId, FALSE, message)
LaterStatusRead ==
    /\ clientWhy = "timeout"
    /\ \/ ImageStatus(Some(clientJob))
       \/ StoryStatus(Some(clientJob))
    /\ UNCHANGED <<pollVars, frontVars>>
LaterTick == clientWhy = "timeout" /\ Tick

NextPoll ==
    \/ ClientStarts
    \/ ClientSleeps
    \/ ClientPolls
    \/ ImageSubtaskSettles
    \/ ClientFetchSettles
    \/ StoryCleanup
    \/ LaterStatusRead
    \/ LaterTick

SpecPoll == Init /\ [][NextPoll]_vars

\* The same, with the timers firing and the requests answered.
SpecPollFair == SpecPoll /\ WF_vars(ClientSleeps) /\ WF_vars(ClientPolls)

\* The strategy selector in front of the router and of the background function.
InitSelect ==
    /\ fn = IMAGE_FN
    /\ apiKey \in BOOLEAN
    /\ InitRegistries
    /\ InitRetry
    /\ InitPoll
    /\ InitSelectState
    /\ InitRouterState
    /\ prod \in BOOLEAN
    /\ InitPageState

CreatorStarts == \E pageCount \in PageCounts : GenerateClicked(pageCount)
CreatorAnalysisSettles ==
    \/ AnalysisSettles(TRUE, "")
    \/ \E message \in AnalysisErrors : AnalysisSettles(FALSE, message)
CreatorStoryFails == \E message \in StoryContentErrors : StoryContentFails(message)
SelectStarts ==
    \E s \in {"parallel", "sequential", "background"} : \E n \in 0..(MaxPrompts - 1) :
        \E reachable \in BOOLEAN : SelectBegins(s, n, reachable)
SelectCallSettles ==
    \/ \E ok \in BOOLEAN : SequentialSettles(ok)
    \/ \E index \in outstanding :
          \/ ParallelSettles(index, TRUE, "")
          \/ \E message \in PageErrors : ParallelSettles(index, FALSE, message)
\* The timer of the wait fires and the status request reaches the function: at
\* once, or so late that the third poll passes the ceiling of the wait.
SelectLatencies == {0, MAX_POLL_TIME \div 3}
SelectSleeps ==
    /\ strategy = "background"
    /\ \E latency \in SelectLatencies :
          /\ latency = 0 => now < MaxQuickPolls * POLL_INTERVAL
          /\ ClientTimerFires(latency)
SelectPollAnswered == \E elsewhere \in BOOLEAN : SelectPolls(elsewhere)
\* A sub-task of the job that the selector is waiting for settles.
SelectJobSettles == selPc = "background" /\ ImageSubtaskSettles

NextSelect ==
    \/ CreatorStarts
    \/ CreatorAnalysisSettles
    \/ CreatorStoryFails
    \/ SelectStarts
    \/ SelectCallSettles
    \/ SelectSleeps
    \/ SelectPollAnswered
    \/ SelectJobSettles
    \/ Deliver

SpecSelect == InitSelect /\ [][NextSelect]_vars


\* The onProgress callback of handleGenerate on its own, given any progress a
\* job can report.
RemoteProgress == 0..100
ProgressReported(p) ==
    /\ reported' = Some(p)
    /\ uiProgress' = RescaleProgress(p)
    /\ UNCHANGED <<fn, registryVars, retryVars, pollVars, strategy, storyPages, selPc,
                   pages, outstanding, completedImages, outcomes, delivered, surfaced,
                   fellBack, creatorVars, routerVars, pageVars>>

InitRescale ==
    /\ fn = IMAGE_FN
    /\ apiKey = TRUE
    /\ InitRegistries
    /\ InitRetry
    /\ InitPoll
    /\ InitFront

NextRescale == \E p \in RemoteProgress : ProgressReported(p)

SpecRescale == InitRescale /\ [][NextRescale]_vars

\* The router on its own: the provider is switched and the three operations
\* are called, in a production or a development build, with or without keys.
InitRouter ==
    /\ fn = IMAGE_FN
    /\ apiKey = TRUE
    /\ InitRegistries
    /\ InitRetry
    /\ InitPoll
    /\ InitSelectState
    /\ aiProvider = Null
    /\ prod \in BOOLEAN
    /\ storedKeys \in [AI_PROVIDERS -> BOOLEAN]
    /\ switched = <<>>
    /\ routed = <<>>
    /\ items = [name \in ItemNames |-> NoKey]
    /\ envKey = NoKey
    /\ keyCalls = <<>>
    /\ InitPageState

ProviderSwitched == \E provider \in AI_PROVIDERS \cup {"other"} : SwitchProvider(provider)
RouterCalled == \E op \in RouterOperations : RouterCall(op)

NextRouter ==
    \/ ProviderSwitched
    \/ RouterCalled

SpecRouter == InitRouter /\ [][NextRouter]_vars

\* generatePageImage of either backend, called once, its requests answered as
\* the upstream likes.
InitPageImage ==
    /\ fn \in {OPENROUTER_API, GOOGLE_API}
    /\ apiKey = TRUE
    /\ InitRegistries
    /\ InitRetry
    /\ InitPoll
    /\ InitFront

PageRequestAnswered ==
    \E status \in HttpAnswers \cup {NoAnswer} : \E echo \in BOOLEAN :
        PageImageAnswered(status, echo)

NextPageImage ==
    \/ PageImageBegin
    \/ PageRequestAnswered
    \/ PageImageWakes

SpecPageImage == InitPageImage /\ [][NextPageImage]_vars

\* The key functions of storageService on their own, in a production or a
\* development build, over any stored keys.
InitStorage ==
    /\ fn = IMAGE_FN
    /\ apiKey = TRUE
    /\ InitRegistries
    /\ InitRetry
    /\ InitPoll
    /\ InitSelectState
    /\ aiProvider = Null
    /\ prod \in BOOLEAN
    /\ storedKeys = [google |-> FALSE, openrouter |-> FALSE]
    /\ switched = <<>>
    /\ routed = <<>>
    /\ items \in [ItemNames -> KeyValues]
    /\ envKey \in KeyValues
    /\ keyCalls = <<>>
    /\ InitPageState

KeySaved ==
    \E key \in KeyValues :
        \/ SetKey("setApiKey", ApiKeyItem, key)
        \/ SetKey("setOpenRouterKey", "openrouter_api_key", key)
KeyRead == \E op \in {"getApiKey", "getOpenRouterKey"} : GetKey(op)

NextStorage ==
    \/ KeySaved
    \/ KeyRead

SpecStorage == InitStorage /\ [][NextStorage]_vars

\* The same, with every timer firing and every call and request settling.
SpecSelectFair ==
    /\ SpecSelect
    /\ WF_vars(CreatorAnalysisSettles)
    /\ WF_vars(CreatorStoryFails \/ SelectStarts)
    /\ WF_vars(SelectCallSettles)
    /\ WF_vars(SelectSleeps)
    /\ WF_vars(SelectPollAnswered)
    /\ WF_vars(Deliver)

\* ------------------------------------------------------------------ claims
Rank(status) ==
    CASE status = "queued" -> 0
      [] status = "processing" -> 1
      [] OTHER -> 2

\* The statuses of a trace, without the launches.
StatusesOf(t) == SelectSeq(t, LAMBDA e : e # "launch")

\* C1: every image job that reaches completed holds a result with one entry per
\* prompt, and entry i carries the pageNumber of prompt i: 0 for the cover, then
\* the pages in request order, in whatever order the sub-tasks settled.
C1_ResultInPromptOrder ==
    \A j \in DOMAIN job :
        job[j].status = "completed" =>
            LET result == job[j].result[1]
                prompts == run[j].prompts
            IN /\ Len(result) = Len(prompts)
               /\ \A i \in 1..Len(prompts) :
                    /\ "pageNumber" \in DOMAIN result[i]
                    /\ result[i].pageNumber = prompts[i].pageNumber
                    /\ result[i].pageNumber = i - 1
                    /\ result[i].isCover = (i = 1)

\* C1 witness: a job of three prompts completed although a sub-task settled
\* before an earlier one.
C1_Witness ==
    \E j \in DOMAIN job :
        /\ job[j].status = "completed"
        /\ run[j].reordered
        /\ Len(job[j].result[1]) = 3

\* C2: in both registries the progress of a job never decreases from one state
\* to the next, the step to failed included.
C2_ProgressNeverDecreases ==
    [][/\ \A j \in DOMAIN job : job'[j].progress >= job[j].progress
       /\ \A j \in DOMAIN jobStore \cap DOMAIN jobStore' :
            jobStore'[j].progress >= jobStore[j].progress]_vars

\* C3: once a job is completed or failed, no step changes its status, result or
\* error while it stays in the registry, and a status read returns these fields
\* as they are stored.
C3_TerminalIsFinal ==
    [][/\ \A j \in DOMAIN job :
            Terminal(job[j].status) =>
                /\ job'[j].status = job[j].status
                /\ job'[j].result = job[j].result
                /\ job'[j].error = job[j].error
       /\ \A j \in DOMAIN jobStore \cap DOMAIN jobStore' :
            Terminal(jobStore[j].status) =>
                /\ jobStore'[j].status = jobStore[j].status
                /\ jobStore'[j].result = jobStore[j].result
                /\ jobStore'[j].error = jobStore[j].error
       /\ (request'.kind = "status" /\ response'.statusCode = 200) =>
            LET stored == IF fn = IMAGE_FN THEN job'[request'.jobId[1]]
                          ELSE jobStore'[request'.jobId[1]]
            IN /\ response'.body.status = stored.status
               /\ response'.body.result = stored.result
               /\ response'.body.error = stored.error]_vars

\* C3 witness: a sub-task of an image job settled after the job had failed, and
\* the job is being read.
C3_Witness ==
    /\ fn = IMAGE_FN
    /\ request.kind = "status"
    /\ response.statusCode = 200
    /\ response.body.status = "failed"
    /\ run[request.jobId[1]].completed > 0

\* C4: the statuses written to a job only move forward along queued,
\* processing, then completed or failed: none is followed by an earlier one,
\* and a terminal status is followed by no other status.
C4_StatusMovesForward ==
    /\ \A j \in DOMAIN trace :
        LET written == StatusesOf(trace[j])
        IN \A a, b \in 1..Len(written) :
            a < b => /\ Rank(written[a]) <= Rank(written[b])
                     /\ Terminal(written[a]) => written[b] = written[a]
    /\ \A j \in DOMAIN job : job[j].status = StatusesOf(trace[j])[Len(StatusesOf(trace[j]))]
    /\ \A j \in DOMAIN jobStore :
        jobStore[j].status = StatusesOf(trace[j])[Len(StatusesOf(trace[j]))]

\* C4 witness: a story job went through queued, processing and failed, the
\* failure written by the catch block and again by the catch callback.
C4_Witness ==
    \E j \in DOMAIN jobStore :
        StatusesOf(trace[j]) = <<"queued", "processing", "failed", "failed">>

\* The position of the first launch of a trace, 0 when it has none.
RECURSIVE FirstLaunch(_, _)
FirstLaunch(t, i) ==
    IF i > Len(t) THEN 0 ELSE IF t[i] = "launch" THEN i ELSE FirstLaunch(t, i + 1)

\* The status a job had when its first sub-task was launched.
StatusAtLaunch(t) == t[FirstLaunch(t, 1) - 1]

\* C5, as stated: every job is created queued, and it is processing when its
\* first generation sub-task is launched.
C5_CreatedQueued ==
    \A j \in DOMAIN trace :
        /\ trace[j][1] = "queued"
        /\ FirstLaunch(trace[j], 1) > 0 => StatusAtLaunch(trace[j]) = "processing"

\* C5, amended: a story job is created queued and an image job is created
\* processing; in both registries the job is processing when its first
\* generation sub-task is launched.
C5_ProcessingBeforeLaunch ==
    \A j \in DOMAIN trace :
        /\ trace[j][1] = (IF fn = STORY_FN THEN "queued" ELSE "processing")
        /\ FirstLaunch(trace[j], 1) > 0 => StatusAtLaunch(trace[j]) = "processing"

\* C5 witness: an image job, created processing, has launched its sub-tasks.
C5_Witness ==
    /\ fn = IMAGE_FN
    /\ \E j \in DOMAIN trace : trace[j] = <<"processing", "launch", "launch", "launch">>

\* C6: in every state of either registry a job has a result only if it is
\* completed and an error only if it is failed.
C6_ResultAndErrorMatchStatus ==
    /\ \A j \in DOMAIN job :
        /\ job[j].result # Null => job[j].status = "completed"
        /\ job[j].error # Null => job[j].status = "failed"
    /\ \A j \in DOMAIN jobStore :
        /\ jobStore[j].result # Null => jobStore[j].status = "completed"
        /\ jobStore[j].error # Null => jobStore[j].status = "failed"

\* C6 witness: an image job failed at start-up holds its error and no result.
C6_Witness ==
    \E j \in DOMAIN job :
        /\ job[j].status = "failed"
        /\ job[j].error = Some("OPENROUTER_API_KEY not configured")
        /\ job[j].result = Null

\* The retention window of the function followed.
RetentionWindow == IF fn = IMAGE_FN THEN ImageMaxAge ELSE StoryMaxAge

\* C7: a status request for an id that was never created, or whose job has been
\* evicted, is answered 404 with no status field.
C7_UnknownOrEvictedIsNotFound ==
    (/\ request.kind = "status"
     /\ request.jobId # Null
     /\ request.jobId[1] \notin DOMAIN born \/ request.jobId[1] \in evicted)
        => /\ response.statusCode = 404
           /\ "status" \notin DOMAIN response.body

C9_DefaultRetrySchedule ==
    options = DefaultOptions =>
        /\ calls <= 3
        /\ delays = SubSeq(<<1000, 2000>>, 1, Len(delays))
        /\ (lastError # Null /\ ~shouldRetry(lastError[1])) =>
              /\ retryPc = "thrown"
              /\ calls = lastError[1].call
              /\ Len(delays) = calls - 1
        /\ (retryPc = "thrown" /\ shouldRetry(lastError[1])) =>
              /\ calls = 3
              /\ delays = <<1000, 2000>>

\* C9 witness: three attempts failed with retryable errors under the defaults.
C9_Witness ==
    /\ options = DefaultOptions
    /\ retryPc = "thrown"
    /\ shouldRetry(lastError[1])
    /\ calls = 3
    /\ delays = <<1000, 2000>>

\* C10: for every k up to maxRetries, k retryable failures never end the call,
\* and when the next invocation succeeds its value is returned after k + 1
\* invocations in all.
C10_SuccessAfterRetries ==
    /\ (lastError # Null /\ shouldRetry(lastError[1])
            /\ lastError[1].call <= options.maxRetries) =>
          \/ retryPc = "sleeping" /\ calls = lastError[1].call
          \/ retryPc \in {"awaiting", "returned"} /\ calls = lastError[1].call + 1
    /\ retryPc = "returned" =>
          /\ settled = Some(SuccessValue(calls))
          /\ calls = Len(delays) + 1
          /\ calls <= options.maxRetries + 1

\* C10 witness: two retryable failures, then a success at the third invocation.
C10_Witness ==
    /\ options = DefaultOptions
    /\ retryPc = "returned"
    /\ lastError # Null
    /\ lastError[1].call = 2
    /\ settled = Some(SuccessValue(3))

\* C11: when retryWithBackoff throws, what it throws is the error object that the
\* last invocation of the operation threw, bearing that invocation's message:
\* not the error of an earlier attempt and not an object made by the policy.
C11_ThrowsLastError ==
    retryPc = "thrown" =>
        /\ settled # Null
        /\ settled = lastError
        /\ settled[1].call = calls
        /\ settled[1].message \in ErrorMessages

\* C11 witness: the third invocation failed after two retries and its error,
\* which differs from nothing but the call it came from, is the one thrown.
C11_Witness ==
    /\ retryPc = "thrown"
    /\ calls = 3
    /\ settled = Some(ErrorObject({"503"}, 3))

\* The markers of the default classifier's permanent classes, and the status
\* codes of the server-side 5xx class among the markers tried.
PermanentMarkers == {"402", "credits", "401", "API key", "403", "forbidden", "400", "invalid"}
ServerErrorCodes == {"500", "501", "502", "503", "504"}
ReportsServerError(message) == message \cap ServerErrorCodes # {}
MatchesPermanent(message) == message \cap PermanentMarkers # {}

\* C12, as stated: an error that reports a 5xx status and matches no permanent
\* marker is retryable, so the call gives up on it only when the retries are
\* used up.
C12_ServerErrorsRetried ==
    (/\ retryPc = "thrown"
     /\ ReportsServerError(lastError[1].message)
     /\ ~MatchesPermanent(lastError[1].message))
        => /\ shouldRetry(lastError[1])
           /\ calls = options.maxRetries + 1

\* C13: a job is failed only when the batch was rejected as a whole; when every
\* sub-task has settled and the batch was not rejected the job is completed,
\* the entry of each page whose generation threw has image null and the error's
\* message, and the entry of every other page has that page's image.
C13_PageFailureCompletes ==
    \A j \in DOMAIN job :
        /\ job[j].status = "failed" => run[j].rejected
        /\ (run[j].pending = {} /\ ~run[j].rejected) => job[j].status = "completed"
        /\ job[j].status = "completed" =>
              \A i \in 1..run[j].totalImages :
                  LET entry == job[j].result[1][i]
                  IN IF i \in run[j].threw
                     THEN /\ entry.image = Null
                          /\ "error" \in DOMAIN entry
                          /\ entry.error \in ImageErrors
                     ELSE entry.image = Some(ImageUrl(run[j].prompts[i].pageNumber))

\* C13 witness: a job of three prompts completed with the generation of its
\* second page failed and the two others succeeded.
C13_Witness ==
    \E j \in DOMAIN job :
        /\ job[j].status = "completed"
        /\ run[j].totalImages = 3
        /\ run[j].threw = {2}
        /\ job[j].result[1][2].image = Null
        /\ job[j].result[1][1].image # Null
        /\ job[j].result[1][3].image # Null

\* C14: every entry of the result of a completed image job has either an image
\* and no error field, or a null image and an error field.
C14_ImageXorError ==
    \A j \in DOMAIN job :
        job[j].status = "completed" =>
            \A i \in 1..Len(job[j].result[1]) :
                LET entry == job[j].result[1][i]
                IN (entry.image # Null) # ("error" \in DOMAIN entry)

\* C14 witness: a completed job holds an entry of each kind.
C14_Witness ==
    \E j \in DOMAIN job :
        /\ job[j].status = "completed"
        /\ \E i \in 1..Len(job[j].result[1]) :
              job[j].result[1][i].image # Null /\ "error" \notin DOMAIN job[j].result[1][i]
        /\ \E i \in 1..Len(job[j].result[1]) :
              job[j].result[1][i].image = Null /\ "error" \in DOMAIN job[j].result[1][i]

\* C15: an image job is completed only when all its sub-tasks have settled, with
\* progress 100 and a count equal to the number of prompts; while a sub-task is
\* in flight the job is not completed and its result is null.
C15_CompletedOnlyWhenAllSettled ==
    \A j \in DOMAIN job :
        /\ job[j].status = "completed" =>
              /\ run[j].pending = {}
              /\ run[j].completed = run[j].totalImages
              /\ job[j].progress = 100
        /\ run[j].pending # {} =>
              /\ job[j].status # "completed"
              /\ job[j].result = Null

\* C15 witness: two of three sub-tasks have settled and the job is still
\* processing, with progress 67 and no result.
C15_Witness ==
    \E j \in DOMAIN job :
        /\ run[j].totalImages = 3
        /\ run[j].completed = 2
        /\ run[j].pending # {}
        /\ job[j].status = "processing"
        /\ job[j].progress = 67
        /\ job[j].result = Null

\* The error a function throws at start-up when its key is not configured.
KeyError == IF fn = IMAGE_FN THEN "OPENROUTER_API_KEY not configured"
            ELSE "GOOGLE_API_KEY not configured"

\* C16: when the API key is not configured, every job started is failed with the
\* start-up error's message as its error, no sub-task is ever launched for it,
\* and a status read that finds the job reports that status and error.
C16_StartupFailureFailsJob ==
    ~apiKey =>
        /\ \A j \in DOMAIN job :
              /\ job[j].status = "failed"
              /\ job[j].error = Some(KeyError)
              /\ run[j].pending = {}
        /\ \A j \in DOMAIN jobStore :
              /\ jobStore[j].status = "failed"
              /\ jobStore[j].error = Some(KeyError)
        /\ fetching = {}
        /\ \A j \in DOMAIN trace : FirstLaunch(trace[j], 1) = 0
        /\ (request.kind = "status" /\ response.statusCode = 200) =>
              /\ response.body.status = "failed"
              /\ response.body.error = Some(KeyError)

\* C16 witness: without a key, a job asked for three images is read as failed.
C16_Witness ==
    /\ ~apiKey
    /\ fn = IMAGE_FN
    /\ request.kind = "status"
    /\ response.statusCode = 200
    /\ response.body.status = "failed"
    /\ run[request.jobId[1]].totalImages = 3

\* The client has ended its wait.
ClientEnded == clientPc \in {"returned", "thrown"}

\* The wait of a client that has started ends, when its timers fire and its
\* requests are answered.
ClientTerminates == (clientPc \in {"sleeping", "polling"}) ~> ClientEnded

\* C17, as stated: the client ends in one of three ways, returning the result of
\* a job seen completed, raising the error of a job seen failed, or raising the
\* timeout when the ceiling is reached (15 minutes from startTime for the image
\* client, 180 polls for the story client), whatever the polls are answered;
\* and whenever it is about to poll again, that poll is not after the ceiling.
C17_EndsByResultErrorOrTimeout ==
    /\ clientPc = "returned" => clientWhy = "completed"
    /\ clientPc = "thrown" => clientWhy \in {"failed", "timeout"}
    /\ clientWhy = "timeout" =>
          IF fn = IMAGE_FN THEN now - startTime >= MAX_POLL_TIME
          ELSE attempts = maxAttempts
    /\ clientPc = "sleeping" =>
          IF fn = IMAGE_FN THEN now + POLL_INTERVAL - startTime <= MAX_POLL_TIME
          ELSE attempts < maxAttempts

\* C18, as stated: in both clients a poll answered with a status other than
\* 2xx leaves the client waiting for its next poll (or at the ceiling), and a
\* poll that sees the job completed makes the client return the job's result.
C18_NotOkPollKeepsWaiting ==
    [][clientPc = "polling" =>
          /\ response'.statusCode \notin {0, 200} =>
                clientPc' = "sleeping" \/ clientWhy' = "timeout"
          /\ (response'.statusCode = 200 /\ response'.body.status = "completed") =>
                /\ clientPc' = "returned"
                /\ clientResult' = Some([value |-> response'.body.result])]_vars

\* C19: the error raised when the ceiling is exceeded carries the timeout
\* message of its client, and the error raised for a job seen failed, the job
\* with an empty error included, never carries a timeout message.
C19_TimeoutDistinctFromFailure ==
    /\ clientWhy = "timeout" =>
          /\ clientPc = "thrown"
          /\ clientResult =
                Some([message |-> IF fn = IMAGE_FN THEN ImageTimeoutError
                                  ELSE StoryTimeoutError])
    /\ clientWhy = "failed" =>
          /\ clientPc = "thrown"
          /\ clientResult[1].message \notin {ImageTimeoutError, StoryTimeoutError}

\* C19 witness: a story job failed with an empty error, and the client raised
\* the fallback message for it.
C19_Witness ==
    /\ fn = STORY_FN
    /\ clientWhy = "failed"
    /\ jobStore[clientJob].error = Some("")
    /\ clientResult = Some([message |-> "Background job failed"])

\* C20: the step in which a client times out leaves its job and the sub-tasks in
\* flight as they were, and a status read made after the timeout, while the job
\* is retained, is answered with the job as it then is, completed included.
C20_TimeoutLeavesJobRunning ==
    [][/\ (clientWhy # "timeout" /\ clientWhy' = "timeout") =>
            /\ job' = job
            /\ run' = run
            /\ clientJob \in jobs => clientJob \in jobs'
            /\ jobStore' = jobStore
            /\ fetching' = fetching
       /\ (/\ clientWhy = "timeout"
           /\ request'.kind = "status"
           /\ IF fn = IMAGE_FN THEN now - born[clientJob] <= ImageMaxAge
              ELSE clientJob \notin evicted) =>
            /\ response'.statusCode = 200
            /\ LET stored == IF fn = IMAGE_FN THEN job'[clientJob] ELSE jobStore'[clientJob]
               IN /\ response'.body.status = stored.status
                  /\ response'.body.progress = stored.progress
                  /\ response'.body.result = stored.result
                  /\ response'.body.error = stored.error]_vars

\* C20 witness: the image client timed out on a job that was processing; the
\* job completed afterwards and is read as completed.
C20_Witness ==
    /\ fn = IMAGE_FN
    /\ clientWhy = "timeout"
    /\ atTimeout = Some("processing")
    /\ request.kind = "status"
    /\ response.statusCode = 200
    /\ response.body.status = "completed"
    /\ Len(response.body.result[1]) = 3

\* The sub-tasks of a job that have settled: those launched and not pending.
SettledCount(r) == Cardinality(DOMAIN r.requests) - Cardinality(r.pending)

\* C24: in every state of an image job of N >= 1 prompts of which k sub-tasks
\* have settled, in whatever order, the completed-count is k, the progress is
\* 100 * k / N rounded to the nearest integer (halves up), and it lies in 0..100.
C24_CountAndProgressFollowSettles ==
    \A j \in DOMAIN job :
        LET r == run[j]
            k == SettledCount(r)
            N == r.totalImages
            p == job[j].progress
        IN /\ r.completed = k
           /\ p \in 0..100
           /\ N >= 1 => /\ 2 * N * p > 200 * k - N
                        /\ 2 * N * p <= 200 * k + N

\* C24 witness: two of three sub-tasks have settled, a later one before an
\* earlier one; the count is 2 and the progress 67.
C24_Witness ==
    \E j \in DOMAIN job :
        /\ run[j].totalImages = 3
        /\ run[j].reordered
        /\ run[j].completed = 2
        /\ job[j].progress = 67

\* C25, as stated: a page of an image job is recorded as failed on a retryable
\* error only when its generation call has been made three times (the first
\* attempt and two retries).
C25_SubtaskRetried ==
    \A j \in DOMAIN job :
        \A i \in run[j].threw :
            (/\ run[j].results[i].error \in ImageErrors
             /\ shouldRetry(ErrorObject({"500"}, 1)))
                => run[j].requests[i] = maxRetries + 1

\* A page list for a story of n pages: n + 1 entries, entry k being the one of
\* position k (the cover first), none of them missing.
OrderedPages(list, n) ==
    /\ Len(list) = n + 1
    /\ \A k \in 1..(n + 1) :
          /\ list[k] # Hole
          /\ list[k].pageNumber = k - 1
          /\ list[k].text = (IF k = 1 THEN "" ELSE PageText(k - 1))
          /\ list[k].image \in {Null, Some(ImageUrl(k - 1))}

\* C21: the selector runs the sequential strategy as a fallback exactly when the
\* wait on the background job has thrown (at its start, on a failed job or on
\* the timeout); the caller then gets no error, and what is delivered is the
\* ordered list of the cover and the pages 1..N.
C21_FallbackExactlyOnBackgroundError ==
    /\ fellBack <=> (strategy = "background" /\ clientPc = "thrown")
    /\ (strategy = "background" /\ (selPc = "sequential" \/ outcomes # <<>>)) => fellBack
    /\ fellBack =>
          /\ surfaced = Null
          /\ selPc \in {"sequential", "assembling", "delivered"}
          /\ selPc = "delivered" => /\ delivered # Null
                                    /\ OrderedPages(delivered[1], storyPages)

\* C21 witness: the background job failed, the fallback has run and its list of
\* three entries is delivered with no error shown.
C21_Witness ==
    /\ fellBack
    /\ clientWhy = "failed"
    /\ surfaced = Null
    /\ delivered # Null
    /\ Len(delivered[1]) = 3

\* C22: under every strategy a request for a story of N pages that has ended
\* has either delivered N + 1 entries in request order, the cover first, or
\* shown a failure; nothing shorter, with holes or in another order is delivered.
C22_CompleteListOrFailure ==
    /\ delivered # Null =>
          /\ OrderedPages(delivered[1], storyPages)
          /\ delivered[1][1].isCover
          /\ surfaced = Null
    /\ selPc = "delivered" <=> delivered # Null
    /\ selPc = "failed" <=> surfaced # Null

\* C22 witness: the background job completed with one page failed, and its
\* three entries are delivered.
C22_Witness ==
    /\ strategy = "background"
    /\ ~fellBack
    /\ delivered # Null
    /\ Len(delivered[1]) = 3
    /\ \E k \in 1..3 : delivered[1][k].image = Null

\* C28: while the sequential strategy runs, exactly one call is in flight, the
\* one of the position after the entries pushed so far; every earlier call has
\* settled and been counted, and the progress shown is the one of that count.
C28_OneCallAtATime ==
    strategy # "parallel" =>
        /\ Cardinality(outstanding) <= 1
        /\ selPc = "sequential" =>
              /\ outstanding = {Len(pages) + 1}
              /\ completedImages = Len(pages)
              /\ Len(outcomes) = Len(pages)
              /\ \A k \in 1..Len(pages) : pages[k].pageNumber = k - 1
              /\ completedImages > 0 =>
                    uiProgress = ImageProgress(Len(pages), storyPages + 1)
        /\ selPc # "sequential" => outstanding = {}

\* C28 witness: in a story of two pages the cover has settled and the call for
\* page 1 is the only one in flight.
C28_Witness ==
    /\ strategy = "sequential"
    /\ selPc = "sequential"
    /\ storyPages = 2
    /\ Len(pages) = 1
    /\ outstanding = {2}

\* What each strategy gives for a story of n pages whose call of position k
\* settles as oc[k]: a list of entries or a failure.
Triple(entry) == [pageNumber |-> entry.pageNumber, text |-> entry.text, image |-> entry.image]
Triples(list) == [k \in 1..Len(list) |-> Triple(list[k])]
SequentialOutcome(n, oc) ==
    [kind |-> "pages", pages |-> Triples([k \in 1..(n + 1) |-> SequentialEntry(k, oc[k])])]
ParallelOutcome(n, oc) ==
    IF \A k \in 1..(n + 1) : oc[k]
    THEN [kind |-> "pages", pages |-> Triples([k \in 1..(n + 1) |-> ParallelEntry(k)])]
    ELSE [kind |-> "failure"]

\* C29, as stated: once every call has settled, what the strategy that ran has
\* given (the entries delivered, or a failure) is what the other strategy gives
\* for the same outcomes of the calls.
C29_StrategiesAgree ==
    /\ (strategy = "sequential" /\ selPc = "delivered") =>
          ParallelOutcome(storyPages, outcomes)
              = [kind |-> "pages", pages |-> Triples(delivered[1])]
    /\ (strategy = "parallel" /\ selPc = "delivered") =>
          SequentialOutcome(storyPages, outcomes)
              = [kind |-> "pages", pages |-> Triples(delivered[1])]
    /\ (strategy = "parallel" /\ selPc = "failed" /\ outstanding = {}) =>
          SequentialOutcome(storyPages, outcomes).kind = "failure"

\* C30, as stated: in the sequential strategy the entry of a page whose call
\* failed has no image and has its error set, the calls after it are still
\* made, and the request does not fail.
C30_FailedPageCarriesError ==
    (strategy = "sequential" \/ fellBack) =>
        /\ surfaced = Null
        /\ selPc # "failed"
        /\ \A k \in 1..Len(outcomes) :
              ~outcomes[k] => /\ pages[k].image = Null
                              /\ "error" \in DOMAIN pages[k]

\* C27: the progress shown for a remote progress p in 0..100 is the integer
\* nearest to 30 + 0.65 * p (halves up); it lies in 30..95, is 30 for 0 and 95
\* for 100, and a higher remote progress never shows a lower one.
C27_RescaleIntoWindow ==
    /\ [](reported # Null =>
            LET p == reported[1]
                shown == uiProgress
            IN /\ shown \in 30..95
               /\ 200 * (shown - 30) > 130 * p - 100
               /\ 200 * (shown - 30) <= 130 * p + 100
               /\ p = 0 => shown = 30
               /\ p = 100 => shown = 95)
    /\ [][(reported # Null /\ reported' # Null /\ reported[1] <= reported'[1])
              => uiProgress <= uiProgress']_vars

\* C27 witness: the remote progress 100 is shown as 95.
C27_Witness == reported = Some(100) /\ uiProgress = 95

\* The module that the setting stored at the time of a call selects.
SelectedBackend(stored) == IF stored = Some("google") THEN "googleAPI" ELSE "openRouterAPI"

C26_TransientAnswersRetried ==
    (pageResult # Null /\ "error" \in DOMAIN pageResult[1]) =>
        /\ (\A i \in 1..Len(answers) : answers[i] \in TransientStatuses)
              => Len(answers) = maxRetries + 1
        /\ answers[1] \in PermanentStatuses => Len(answers) = 1

\* C33, as stated: a job id that a sweep has evicted is not in its registry
\* again, whatever its background work does afterwards, and a status request
\* for it is answered not-found.
C33_EvictedStaysOut ==
    /\ \A j \in evicted :
          IF fn = IMAGE_FN THEN j \notin jobs ELSE j \notin DOMAIN jobStore
    /\ (request.kind = "status" /\ request.jobId # Null /\ request.jobId[1] \in evicted)
          => response.statusCode = 404

\* The age of a stored job, now - createdAt, where the record has a createdAt.
HasAge(record) == "createdAt" \in DOMAIN record
Age(record) == now - record.createdAt

\* C34: a sweep (every request of the image function, the hourly callback of
\* the story function) removes the jobs whose age is greater than the retention
\* window and no other; a job whose age is at most the window is still stored
\* after it with every field unchanged, whatever its status.
C34_SweepRemovesExactlyExpired ==
    [][/\ (fn = IMAGE_FN /\ request' # NoRequest) =>
            \A j \in jobs :
                /\ j \in jobs' <=> Age(job[j]) <= ImageMaxAge
                /\ job'[j] = job[j]
       /\ (fn = STORY_FN /\ timerDue /\ ~timerDue') =>
            \A j \in DOMAIN jobStore :
                HasAge(jobStore[j]) =>
                    /\ j \in DOMAIN jobStore' <=> Age(jobStore[j]) <= StoryMaxAge
                    /\ j \in DOMAIN jobStore' => jobStore'[j] = jobStore[j]]_vars

\* C34 witness: the hourly callback has just run; it removed a job and kept one
\* whose age is exactly the window.
C34_Witness ==
    /\ fn = STORY_FN
    /\ ~timerDue
    /\ now % CleanupInterval = 0
    /\ evicted # {}
    /\ \E j \in DOMAIN jobStore :
          /\ HasAge(jobStore[j])
          /\ Age(jobStore[j]) = StoryMaxAge

\* The argument of the last call of switchProvider that did not throw, or the
\* default when there is none.
LastSwitched(log) ==
    LET good == {i \in 1..Len(log) : ~log[i].threw}
    IN IF good = {} THEN "openrouter"
       ELSE log[CHOOSE i \in good : \A other \in good : other <= i].provider

\* C32: a call of switchProvider with a value that is no provider throws and
\* leaves the stored setting as it was, a call with a provider does not throw;
\* after any calls getCurrentProvider is 'google' or 'openrouter', namely the
\* argument of the last call that did not throw (the default when there is none).
C32_SwitchValidates ==
    /\ [](/\ getCurrentProvider \in AI_PROVIDERS
          /\ getCurrentProvider = LastSwitched(switched))
    /\ [][Len(switched') > Len(switched) =>
            LET call == switched'[Len(switched')]
            IN /\ call.threw <=> call.provider \notin AI_PROVIDERS
               /\ call.threw => aiProvider' = aiProvider]_vars

\* C32 witness: google was selected, then a value that is no provider was
\* refused, and google is still the current provider.
C32_Witness ==
    /\ Len(switched) = 2
    /\ switched[1] = [provider |-> "google", threw |-> FALSE]
    /\ switched[2] = [provider |-> "other", threw |-> TRUE]
    /\ getCurrentProvider = "google"

\* C40, as stated: in a development build, a call of getApiKey that directly
\* follows a call setApiKey(k) with a non-empty k returns k, whatever was
\* stored before.
C40_ApiKeyRoundTrip ==
    ~prod =>
        \A i \in 1..(Len(keyCalls) - 1) :
            (/\ keyCalls[i].op = "setApiKey"
             /\ keyCalls[i].key # NoKey
             /\ keyCalls[i + 1].op = "getApiKey")
                => /\ keyCalls[i].returned = Some(TRUE)
                   /\ keyCalls[i + 1].returned = Some(keyCalls[i].key)

\* C35, as stated: within one generation request the progress shown never
\* decreases from one update to the next.
C35_ProgressNeverDrops == [][uiProgress' >= uiProgress]_vars

\* A generation request has left the loading step.
CreatorEnded == selPc \in {"delivered", "failed"}

\* C37: a generation request that has entered the loading step leaves it, by
\* the story given to onStoryGenerated or by the error step, never by both; it
\* stays where it has ended, so onStoryGenerated is called once.
C37_LeavesLoadingByOneExit ==
    /\ [](/\ ~(delivered # Null /\ surfaced # Null)
          /\ selPc = "delivered" <=> delivered # Null
          /\ selPc = "failed" <=> surfaced # Null)
    /\ [][CreatorEnded => (selPc' = selPc /\ delivered' = delivered
                           /\ surfaced' = surfaced)]_vars
    /\ (selPc = "analysing") ~> CreatorEnded

\* C37 witness: the background job failed, the fallback ran and the request has
\* ended with the story delivered.
C37_Witness ==
    /\ selPc = "delivered"
    /\ fellBack
    /\ Len(delivered[1]) = storyPages + 1
    /\ surfaced = Null

\* C38: a failure or the timeout of the photo analysis does not end the request:
\* story generation follows with a null description; a failure of story
\* generation ends the request in the error step with no image call issued and
\* no image job started.
C38_AnalysisOptionalStoryRequired ==
    /\ [][selPc = "analysing" =>
            /\ selPc' = "writing"
            /\ surfaced' = Null
            /\ characterDescription' \in {Null, Some(Description)}]_vars
    /\ [](characterDescription = Null /\ selPc \notin {"idle", "analysing", "failed"}
            => surfaced = Null)
    /\ [][(selPc = "writing" /\ selPc' = "failed") =>
            /\ surfaced' \in {Some(message) : message \in StoryContentErrors}
            /\ strategy' = "none"
            /\ outstanding' = {}
            /\ outcomes' = <<>>
            /\ nextJob' = 0
            /\ clientPc' = "idle"]_vars

\* C38 witness: the analysis failed and the story has nevertheless been
\* illustrated and delivered.
C38_Witness ==
    /\ characterDescription = Null
    /\ selPc = "delivered"
    /\ strategy = "sequential"
    /\ Len(delivered[1]) = 3

CharacterOutfit == "the outfit"
LocationMap == "the locations by name"
CharacterMap == "the characters by name"
MagicalSetting == "magical setting"
PageLocation(i) == <<"location of page", i>>

\* generateImagesSequentially: the storyContext given to generatePageImage for
\* position k, the cover being position 1. locations is keyed by name, so
\* locations?.[0] of the cover is undefined and 'magical setting' is given.
SequentialContext(k) ==
    [characterDescription |-> characterDescription,
     characterOutfit |-> CharacterOutfit,
     locations |-> LocationMap,
     characters |-> CharacterMap,
     currentLocation |-> Some(IF k = 1 THEN MagicalSetting ELSE PageLocation(k - 1))]

\* generateImagesInBackground and processImagesInBackground: the request body
\* holds one storyContext of three fields, and every generateSingleImage call
\* is given that object; an image prompt holds pageNumber, prompt, text and
\* isCover only.
BackgroundContext(index) ==
    [characterDescription |-> characterDescription,
     characterOutfit |-> CharacterOutfit,
     locations |-> LocationMap,
     characters |-> CharacterMap,
     currentLocation |-> Null]

\* The positions generateImagesSequentially has called generatePageImage for.
SequentialRequests ==
    IF selPc \in {"sequential", "assembling", "delivered"}
       /\ (strategy = "sequential" \/ fellBack)
    THEN (1..Len(outcomes)) \cup outstanding
    ELSE {}

\* The context of position k is the job's, with the location of its page.
CarriesContext(context, k) ==
    /\ context.characterDescription = characterDescription
    /\ context.characterOutfit = CharacterOutfit
    /\ context.locations = LocationMap
    /\ context.characters = CharacterMap
    /\ k > 1 => context.currentLocation = Some(PageLocation(k - 1))

\* C31, the sequential strategy: every call carries the same description,
\* outfit and maps, and the call of page i the location of page i.
C31_SequentialCarriesContext ==
    \A k \in SequentialRequests : CarriesContext(SequentialContext(k), k)

\* C31, as stated: under the sequential and the background strategy every
\* request carries the same description, outfit and maps, and the request of
\* page i the location of page i.
C31_SameContextEveryRequest ==
    /\ C31_SequentialCarriesContext
    /\ strategy = "background" =>
         \A j \in DOMAIN run : \A index \in DOMAIN run[j].requests :
             CarriesContext(BackgroundContext(index), index)

\* ------------------------------------------- generateStoryContent, production
\* googleAPI-new.js: generateStoryContent gives retryWithBackoff, with the
\* default options, a function that calls callGoogleAPI with useBackground:
\* one invocation starts a job of the story function and waits in
\* pollJobStatus. The markers the default shouldRetry looks for in the message
\* of the error an invocation throws.
MarkersOf(message) ==
    CASE message = StoryTimeoutError -> {"timeout"}
      [] message = "API error: 500" -> {"500"}
      [] OTHER -> {}

\* generateStoryContent calls retryWithBackoff: the loop starts and the first
\* invocation sends its start request.
StoryCallBegins ==
    /\ fn = STORY_FN
    /\ retryPc = "idle"
    /\ clientPc = "idle"
    /\ options' = DefaultOptions
    /\ attempt' = 0
    /\ calls' = 1
    /\ retryPc' = "awaiting"
    /\ UNCHANGED <<fn, registryVars, pollVars, frontVars, lastError, delays, settled>>

\* The start request of the invocation is answered and pollJobStatus sets its
\* first timer.
StoryCallStartsJob ==
    /\ retryPc = "awaiting"
    /\ ClientStartsStory
    /\ UNCHANGED frontVars

\* pollJobStatus returns the result: callGoogleAPI and retryWithBackoff return it.
StoryCallResolves ==
    /\ retryPc = "awaiting"
    /\ clientPc = "returned"
    /\ retryPc' = "returned"
    /\ settled' = Some(SuccessValue(calls))
    /\ UNCHANGED <<fn, registryVars, pollVars, frontVars, options, attempt, calls,
                   lastError, delays>>

\* pollJobStatus throws: the catch block of retryWithBackoff records the error,
\* then sets the timer of the next attempt or throws the error.
StoryCallRejects ==
    /\ retryPc = "awaiting"
    /\ clientPc = "thrown"
    /\ LET error == ErrorObject(MarkersOf(clientResult[1].message), calls)
       IN /\ lastError' = Some(error)
          /\ IF RetriesAgain(options, attempt, error)
             THEN /\ delays' = Append(delays, Delay(options, attempt))
                  /\ retryPc' = "sleeping"
                  /\ settled' = settled
             ELSE /\ retryPc' = "thrown"
                  /\ settled' = Some(error)
                  /\ delays' = delays
    /\ UNCHANGED <<fn, registryVars, pollVars, frontVars, options, attempt, calls>>

\* The timer of the retry fires: the function is invoked again and sends a new
\* start request.
StoryCallWakes ==
    /\ retryPc = "sleeping"
    /\ fn = STORY_FN
    /\ attempt' = attempt + 1
    /\ calls' = calls + 1
    /\ retryPc' = "awaiting"
    /\ clientPc' = "idle"
    /\ now' = now + delays[Len(delays)]
    /\ timerDue' = TimerDueAt(now + delays[Len(delays)])
    /\ request' = NoRequest
    /\ response' = NoResponse
    /\ UNCHANGED <<fn, apiKey, imageVars, jobStore, fetching, nextStory, trace, evicted,
                   born, options, lastError, delays, settled, clientJob, startTime,
                   attempts, clientResult, clientWhy, atTimeout, frontVars>>

\* One call of generateStoryContent in a production build. The call ends within
\* three waits of fifteen minutes, before the hourly timer of the function.
InitStoryCall ==
    /\ fn = STORY_FN
    /\ apiKey \in BOOLEAN
    /\ InitRegistries
    /\ InitRetry
    /\ InitPoll
    /\ InitFront
\* The upstream fetch of a job settles during the first polls of a wait or not
\* before its ceiling, and a status request reaches another instance during
\* the first polls or not at all.
StoryCallFetchSettles == attempts < MaxQuickPolls /\ StoryFetchSettles
StoryCallPolls ==
    /\ \E elsewhere \in BOOLEAN :
          /\ elsewhere => attempts < MaxQuickPolls
          /\ ClientPollsStory(elsewhere)
    /\ UNCHANGED frontVars
NextStoryCall ==
    \/ StoryCallBegins
    \/ StoryCallStartsJob
    \/ ClientSleeps
    \/ StoryCallPolls
    \/ StoryCallFetchSettles
    \/ StoryCallResolves
    \/ StoryCallRejects
    \/ StoryCallWakes
SpecStoryCall == InitStoryCall /\ [][NextStoryCall]_vars

\* C36, as stated: one call of generateStoryContent starts at most one job of
\* the story function, and so waits for at most one polling ceiling.
C36_OneJobPerCall ==
    /\ nextStory <= 1
    /\ calls <= 1
    /\ now <= maxAttempts * StoryPollInterval

====
